---- MODULE Spec2Model ----
(***************************************************************************)
(* State-machine model of oidc-agent.  Two programs of the repository are  *)
(* modelled, and a behaviour runs one of them (variable agent):            *)
(*  - oidcd: the request handlers of                                       *)
(*    src/src/oidc-agent/oidcd/oidcd_handler.c working on the list of      *)
(*    loaded accounts, behind the dispatcher and the lock state;           *)
(*  - oidc-agent: the stand-alone agent of src/src/oidc-agent.c, its       *)
(*    handlers and the request loop of main.                               *)
(* The issuer (HTTP) and the prompter (pipe) are nondeterministic          *)
(* environments: every handler takes their answers as an argument e.       *)
(***************************************************************************)
EXTENDS Integers, Sequences, FiniteSets, TLC

\* ---- bounds of the model ------------------------------------------------
MaxTime      == 1   \* the clock runs from 0 to MaxTime
MaxExpiresIn == 1   \* expires_in values an issuer grants: 1..MaxExpiresIn
MaxPeriod    == 2   \* largest min_valid_period a client asks for
MaxRT        == 2   \* refresh tokens are 1..MaxRT (0 is the empty token)
MaxWait      == 1   \* the prompter answers within 0..MaxWait
MaxState     == 2   \* state nonces are 1..MaxState (0 is NULL)

\* ---- values -------------------------------------------------------------
FORCE_NEW_TOKEN == -1

Shortnames    == {"acme"}
States        == 1..MaxState
RefreshTokens == 1..MaxRT
ClientTokens  == {1}     \* the refresh token the clients' config files hold
IssuerTokens  == RefreshTokens \ ClientTokens
Digits        == <<"0", "1", "2", "3", "4", "5", "6", "7", "8", "9">>

FLOW_VALUE_REFRESH  == "refresh"
FLOW_VALUE_PASSWORD == "password"
FLOW_VALUE_CODE     == "code"
FLOW_VALUE_DEVICE   == "device"

\* ---- accounts -----------------------------------------------------------
\* struct oidc_account, reduced to the fields the handlers read or write.
\* token_endpoint is the token endpoint of a provider of the stand-alone
\* agent (set or not); oidcd keeps the endpoints with the issuer.
\* shortname "" stands for a NULL account pointer / NULL shortname.
Account(sn, rt, user, pw, redir) ==
  [shortname |-> sn, refresh_token |-> rt, access_token |-> 0,
   token_expires_at |-> 0, death |-> 0, confirmation_required |-> FALSE,
   usedState |-> 0, username |-> user, password |-> pw,
   redirect_uris |-> redir, token_endpoint |-> FALSE]

NullAccount == Account("", 0, FALSE, FALSE, FALSE)

\* the key a handler looks a shortname up with: struct oidc_account key =
\* {.shortname = short_name}
Key(sn) == [NullAccount EXCEPT !.shortname = sn]

\* An account configuration as it travels in a request ("account" key).
\* valid = FALSE is a body getAccountFromJSON cannot parse.
AccountJSON(valid, sn, rt, user, pw, redir) ==
  [valid |-> valid, shortname |-> sn, refresh_token |-> rt,
   username |-> user, password |-> pw, redirect_uris |-> redir,
   token_endpoint |-> FALSE]

\* a provider configuration that names a token endpoint
WithTokenEndpoint(json) == [json EXCEPT !.token_endpoint = TRUE]

BadJSON == AccountJSON(FALSE, "", 0, FALSE, FALSE, FALSE)

getAccountFromJSON(json) ==
  IF json.valid
    THEN [Account(json.shortname, json.refresh_token, json.username,
                  json.password, json.redirect_uris)
            EXCEPT !.token_endpoint = json.token_endpoint]
    ELSE NullAccount

strValid(s) == s # ""

\* atol / strToInt on the decimal strings the model uses; anything that is
\* not a number converts to 0.
strToInt(s) ==
  IF \E i \in 1..Len(Digits) : Digits[i] = s
    THEN (CHOOSE i \in 1..Len(Digits) : Digits[i] = s) - 1
    ELSE 0

account_refreshTokenIsValid(account) == account.refresh_token # 0

\* the configuration string of an account, reduced to whether it carries a
\* username or a password (1) or neither (0)
accountToJSONString(account) ==
  IF account.username \/ account.password THEN 1 ELSE 0

\* the account_json of a request as it is echoed in a response, reduced like
\* accountToJSONString: it carries a username or a password (1) or neither
configOfJSON(account_json) ==
  IF account_json.username \/ account_json.password THEN 1 ELSE 0

hasRedirectUris(account) == account.redirect_uris

\* ---- the list of loaded accounts (list_t with its match function) --------
account_matchByName(a, b)  == a.shortname = b.shortname
account_matchByState(a, b) == a.usedState = b.usedState

list_match(list, a, b) ==
  IF list.match = "account_matchByState"
    THEN account_matchByState(a, b)
    ELSE account_matchByName(a, b)

\* index of the first node matching key, 0 when there is none
findInList(list, key) ==
  IF \E i \in 1..Len(list.val) : list_match(list, key, list.val[i])
    THEN CHOOSE i \in 1..Len(list.val) :
           /\ list_match(list, key, list.val[i])
           /\ \A j \in 1..(i - 1) : ~list_match(list, key, list.val[j])
    ELSE 0

getAccountFromList(list, key) ==
  IF findInList(list, key) = 0 THEN NullAccount
  ELSE list.val[findInList(list, key)]

list_remove(list, node) ==
  [list EXCEPT !.val =
     [i \in 1..(Len(list.val) - 1) |->
        IF i < node THEN list.val[i] ELSE list.val[i + 1]]]

list_rpush(list, account) == [list EXCEPT !.val = Append(list.val, account)]

\* write-through of a record the handler holds by pointer
list_set(list, node, account) == [list EXCEPT !.val[node] = account]

\* Inserts account; a different record found under the same key is dropped
\* first, the very same record stays where it is (only re-encrypted).
addAccountToList(list, account) ==
  LET node == findInList(list, account) IN
  IF node # 0 /\ list.val[node] = account THEN list
  ELSE IF node # 0 THEN list_rpush(list_remove(list, node), account)
  ELSE list_rpush(list, account)

\* ---- events of one handler invocation ------------------------------------
\* Everything a handler sends: responses to the client ("write"), requests
\* to the issuer ("http", with the outcome "ok" or "fail" as status) and
\* requests to the prompter ("prompt", with the kind of reply as status), in
\* order.
Ev(ev, status, what, name, n, m) ==
  [ev |-> ev, status |-> status, what |-> what, name |-> name,
   n |-> n, m |-> m]

ipc_writeToPipe(status, what, n, m) == Ev("write", status, what, "", n, m)
ipc_writeOidcErrnoToPipe(err)       == Ev("write", "failure", err, "", 0, 0)
Http(what, status, n)               == Ev("http", status, what, "", n, 0)
ipc_communicateThroughPipe(what, name, reply) ==
  Ev("prompt", reply, what, name, 0, 0)
\* the process dies in the handler (a NULL pointer is dereferenced): nothing
\* is sent after it
Crash == Ev("crash", "", "", "", 0, 0)

\* result of a handler: the list it leaves and the events it produced
Res(list, out) == [list |-> list, out |-> out]

\* ---- the issuer and the flows -------------------------------------------
\* A token response of the issuer: ok = FALSE is any failure; on success the
\* issuer grants expires_in seconds and may send a refresh token (0 = none).
TokenResponse(ok, expires_in, rt) ==
  [ok |-> ok, expires_in |-> expires_in, refresh_token |-> rt]

NoResponse == TokenResponse(FALSE, 0, 0)

\* result of a flow: the account as the flow leaves it, the access token it
\* returns (0 = NULL) and the requests it sent
FlowRes(account, token, out) ==
  [account |-> account, token |-> token, out |-> out]

\* An access token is identified by the time it really expires.
parseTokenResponse(account, resp, saveAccessToken, now) ==
  LET rotated == [account EXCEPT !.refresh_token =
                    IF resp.refresh_token # 0 THEN resp.refresh_token ELSE @]
  IN IF saveAccessToken
       THEN [rotated EXCEPT !.access_token = now + resp.expires_in,
                            !.token_expires_at = now + resp.expires_in]
       ELSE rotated

tokenIsValidForSeconds(account, min_valid_period, now) ==
  now + min_valid_period < account.token_expires_at

\* F1.  scope is TRUE when the request carries a scope.
getAccessTokenUsingRefreshFlow(account, min_valid_period, scope, resp, now) ==
  IF /\ ~scope
     /\ min_valid_period # FORCE_NEW_TOKEN
     /\ account.access_token # 0
     /\ tokenIsValidForSeconds(account, min_valid_period, now)
    THEN FlowRes(account, account.access_token, <<>>)
  ELSE IF ~account_refreshTokenIsValid(account)
    THEN FlowRes(account, 0, <<>>)
  ELSE IF ~resp.ok
    THEN FlowRes(account, 0,
                 <<Http("token_refresh", "fail", account.refresh_token)>>)
  ELSE FlowRes(parseTokenResponse(account, resp, ~scope, now),
               now + resp.expires_in,
               <<Http("token_refresh", "ok", account.refresh_token)>>)

\* F2.  Username and password are cleared once the post has returned.
getAccessTokenUsingPasswordFlow(account, resp, now) ==
  LET cleared == [account EXCEPT !.username = FALSE, !.password = FALSE] IN
  IF ~(account.username /\ account.password)
    THEN FlowRes(account, 0, <<>>)
  ELSE IF ~resp.ok
    THEN FlowRes(cleared, 0, <<Http("token_password", "fail", 0)>>)
  ELSE FlowRes(parseTokenResponse(cleared, resp, TRUE, now),
               now + resp.expires_in, <<Http("token_password", "ok", 0)>>)

\* F3, second half: the post of the authorization code.
getAccessTokenUsingAuthCodeFlow(account, resp, now) ==
  IF ~resp.ok
    THEN FlowRes(account, 0, <<Http("token_code", "fail", 0)>>)
  ELSE FlowRes(parseTokenResponse(account, resp, TRUE, now),
               now + resp.expires_in, <<Http("token_code", "ok", 0)>>)

\* F4, second half: one poll of the token endpoint with the device code.
getAccessTokenUsingDeviceFlow(account, resp, now) ==
  IF ~resp.ok
    THEN FlowRes(account, 0, <<Http("token_device", "fail", 0)>>)
  ELSE FlowRes(parseTokenResponse(account, resp, TRUE, now),
               now + resp.expires_in, <<Http("token_device", "ok", 0)>>)

\* Discovery: disc is what the issuer answers, "ok", "no_token_endpoint"
\* (a document without a token endpoint) or "fail".
getIssuerConfig(disc) ==
  <<Http("discovery", IF disc = "fail" THEN "fail" ELSE "ok", 0)>>

\* ---- gen ------------------------------------------------------------------
initAuthCodeFlow(account, state, uri) ==
  IF ~uri THEN <<ipc_writeOidcErrnoToPipe("oidc_errno")>>
  ELSE <<ipc_writeToPipe("accepted", "code_uri", state, 0)>>

\* Trace of the walk: entry i of the flow list, named what, was attempted
\* and the attempt ended with status "ok" (a token: success = 1), "fail" (no
\* token), "suspend" (the code URI or the device info is returned) or "abort"
\* (the entry cannot be started: no code URI, no device code, no redirect
\* URI, unknown flow name); rt is the account's refresh token at that point.
Flow(status, what, i, rt) == Ev("flow", status, what, "", i, rt)

\* The walk over the flow list (the while loop of oidcd_handleGen), from
\* entry i on.  ret = TRUE: the handler returned from inside the loop.
RECURSIVE GenFlows(_, _, _, _, _, _)
\* the walk without the break after a refresh flow that gave a token: it goes
\* on to the next entry
GenFlows_m(account, account_json, flows, i, e, now) ==
  IF i > Len(flows)
    THEN [ret |-> FALSE, success |-> FALSE, account |-> account, out |-> <<>>]
  ELSE IF flows[i] = FLOW_VALUE_REFRESH THEN
    LET r == getAccessTokenUsingRefreshFlow(account, FORCE_NEW_TOKEN, FALSE,
                                            e.tok[i], now)
        t == r.out \o <<Flow(IF r.token # 0 THEN "ok" ELSE "fail", flows[i],
                             i, r.account.refresh_token)>>
    IN
    IF r.token # 0 /\ i = Len(flows)
      THEN [ret |-> FALSE, success |-> TRUE, account |-> r.account,
            out |-> t]
    ELSE IF Len(flows) = 1
      THEN [ret |-> TRUE, success |-> FALSE, account |-> r.account,
            out |-> t \o <<ipc_writeOidcErrnoToPipe("flow_failed")>>]
    ELSE LET rest == GenFlows(r.account, account_json, flows, i + 1,
                                  e, now)
         IN [rest EXCEPT !.out = t \o @]
  ELSE IF flows[i] = FLOW_VALUE_PASSWORD THEN
    LET r == getAccessTokenUsingPasswordFlow(account, e.tok[i], now)
        t == r.out \o <<Flow(IF r.token # 0 THEN "ok" ELSE "fail", flows[i],
                             i, r.account.refresh_token)>>
    IN
    IF r.token # 0
      THEN [ret |-> FALSE, success |-> TRUE, account |-> r.account,
            out |-> t]
    ELSE IF Len(flows) = 1
      THEN [ret |-> TRUE, success |-> FALSE, account |-> r.account,
            out |-> t \o <<ipc_writeOidcErrnoToPipe("flow_failed")>>]
    ELSE LET rest == GenFlows(r.account, account_json, flows, i + 1,
                                  e, now)
         IN [rest EXCEPT !.out = t \o @]
  ELSE IF flows[i] = FLOW_VALUE_CODE /\ hasRedirectUris(account) THEN
    [ret |-> TRUE, success |-> FALSE, account |-> account,
     out |-> <<Flow(IF e.uri THEN "suspend" ELSE "abort", flows[i], i,
                    account.refresh_token)>>
             \o initAuthCodeFlow(account, e.state, e.uri)]
  ELSE IF flows[i] = FLOW_VALUE_DEVICE THEN
    [ret |-> TRUE, success |-> FALSE, account |-> account,
     out |-> IF ~e.dev
               THEN <<Http("device", "fail", 0),
                      Flow("abort", flows[i], i, account.refresh_token),
                      ipc_writeOidcErrnoToPipe("oidc_errno")>>
               ELSE <<Http("device", "ok", 0),
                      Flow("suspend", flows[i], i, account.refresh_token),
                      ipc_writeToPipe("accepted", "device", 0,
                                      configOfJSON(account_json))>>]
  ELSE
    [ret |-> TRUE, success |-> FALSE, account |-> account,
     out |-> <<Flow("abort", flows[i], i, account.refresh_token)>> \o
             IF flows[i] = FLOW_VALUE_CODE /\ ~hasRedirectUris(account)
               THEN <<ipc_writeToPipe("failure", "no_redirect_uris", 0, 0)>>
               ELSE <<Ev("write", "failure", "unknown_flow", flows[i], 0, 0)>>]

GenFlows(account, account_json, flows, i, e, now) ==
  IF i > Len(flows)
    THEN [ret |-> FALSE, success |-> FALSE, account |-> account, out |-> <<>>]
  ELSE IF flows[i] = FLOW_VALUE_REFRESH THEN
    LET r == getAccessTokenUsingRefreshFlow(account, FORCE_NEW_TOKEN, FALSE,
                                            e.tok[i], now)
        t == r.out \o <<Flow(IF r.token # 0 THEN "ok" ELSE "fail", flows[i],
                             i, r.account.refresh_token)>>
    IN
    IF r.token # 0
      THEN [ret |-> FALSE, success |-> TRUE, account |-> r.account,
            out |-> t]
    ELSE IF Len(flows) = 1
      THEN [ret |-> TRUE, success |-> FALSE, account |-> r.account,
            out |-> t \o <<ipc_writeOidcErrnoToPipe("flow_failed")>>]
    ELSE LET rest == GenFlows(r.account, account_json, flows, i + 1,
                                  e, now)
         IN [rest EXCEPT !.out = t \o @]
  ELSE IF flows[i] = FLOW_VALUE_PASSWORD THEN
    LET r == getAccessTokenUsingPasswordFlow(account, e.tok[i], now)
        t == r.out \o <<Flow(IF r.token # 0 THEN "ok" ELSE "fail", flows[i],
                             i, r.account.refresh_token)>>
    IN
    IF r.token # 0
      THEN [ret |-> FALSE, success |-> TRUE, account |-> r.account,
            out |-> t]
    ELSE IF Len(flows) = 1
      THEN [ret |-> TRUE, success |-> FALSE, account |-> r.account,
            out |-> t \o <<ipc_writeOidcErrnoToPipe("flow_failed")>>]
    ELSE LET rest == GenFlows(r.account, account_json, flows, i + 1,
                                  e, now)
         IN [rest EXCEPT !.out = t \o @]
  ELSE IF flows[i] = FLOW_VALUE_CODE /\ hasRedirectUris(account) THEN
    [ret |-> TRUE, success |-> FALSE, account |-> account,
     out |-> <<Flow(IF e.uri THEN "suspend" ELSE "abort", flows[i], i,
                    account.refresh_token)>>
             \o initAuthCodeFlow(account, e.state, e.uri)]
  ELSE IF flows[i] = FLOW_VALUE_DEVICE THEN
    [ret |-> TRUE, success |-> FALSE, account |-> account,
     out |-> IF ~e.dev
               THEN <<Http("device", "fail", 0),
                      Flow("abort", flows[i], i, account.refresh_token),
                      ipc_writeOidcErrnoToPipe("oidc_errno")>>
               ELSE <<Http("device", "ok", 0),
                      Flow("suspend", flows[i], i, account.refresh_token),
                      ipc_writeToPipe("accepted", "device", 0,
                                      configOfJSON(account_json))>>]
  ELSE
    [ret |-> TRUE, success |-> FALSE, account |-> account,
     out |-> <<Flow("abort", flows[i], i, account.refresh_token)>> \o
             IF flows[i] = FLOW_VALUE_CODE /\ ~hasRedirectUris(account)
               THEN <<ipc_writeToPipe("failure", "no_redirect_uris", 0, 0)>>
               ELSE <<Ev("write", "failure", "unknown_flow", flows[i], 0, 0)>>]

\* oidcd_handleGen that inserts the account after any successful flow, without
\* looking at the refresh token
oidcd_handleGen_m(list, account_json, flow, e, now) ==
  LET account == getAccountFromJSON(account_json) IN
  IF account = NullAccount
    THEN Res(list, <<ipc_writeOidcErrnoToPipe("oidc_errno")>>)
  ELSE IF e.disc = "fail"
    THEN Res(list, getIssuerConfig(e.disc) \o
                   <<ipc_writeOidcErrnoToPipe("discovery_failed")>>)
  ELSE IF e.disc = "no_token_endpoint"
    THEN Res(list, getIssuerConfig(e.disc) \o
                   <<ipc_writeOidcErrnoToPipe("oidc_errno")>>)
  ELSE
    LET w   == GenFlows(account, account_json, flow, 1, e, now)
        acc == [w.account EXCEPT !.username = FALSE, !.password = FALSE]
    IN IF w.ret THEN Res(list, getIssuerConfig(e.disc) \o w.out)
       ELSE IF w.success
         THEN Res(addAccountToList(list, acc),
                  getIssuerConfig(e.disc) \o w.out \o
                  <<ipc_writeToPipe("success", "config",
                                    accountToJSONString(acc), 0)>>)
       ELSE Res(list, getIssuerConfig(e.disc) \o w.out \o
                <<ipc_writeToPipe("failure",
                     IF w.success THEN "no_refresh_token" ELSE "no_flow", 0, 0)>>)

\* oidcd_handleGen with the two messages of its last error answer exchanged
oidcd_handleGen_swap(list, account_json, flow, e, now) ==
  LET account == getAccountFromJSON(account_json) IN
  IF account = NullAccount
    THEN Res(list, <<ipc_writeOidcErrnoToPipe("oidc_errno")>>)
  ELSE IF e.disc = "fail"
    THEN Res(list, getIssuerConfig(e.disc) \o
                   <<ipc_writeOidcErrnoToPipe("discovery_failed")>>)
  ELSE IF e.disc = "no_token_endpoint"
    THEN Res(list, getIssuerConfig(e.disc) \o
                   <<ipc_writeOidcErrnoToPipe("oidc_errno")>>)
  ELSE
    LET w   == GenFlows(account, account_json, flow, 1, e, now)
        acc == [w.account EXCEPT !.username = FALSE, !.password = FALSE]
    IN IF w.ret THEN Res(list, getIssuerConfig(e.disc) \o w.out)
       ELSE IF account_refreshTokenIsValid(acc) /\ w.success
         THEN Res(addAccountToList(list, acc),
                  getIssuerConfig(e.disc) \o w.out \o
                  <<ipc_writeToPipe("success", "config",
                                    accountToJSONString(acc), 0)>>)
       ELSE Res(list, getIssuerConfig(e.disc) \o w.out \o
                <<ipc_writeToPipe("failure",
                     IF w.success THEN "no_flow" ELSE "no_refresh_token", 0, 0)>>)

\* e = [disc, tok (one token response per flow entry), dev, uri, state]
oidcd_handleGen(list, account_json, flow, e, now) ==
  LET account == getAccountFromJSON(account_json) IN
  IF account = NullAccount
    THEN Res(list, <<ipc_writeOidcErrnoToPipe("oidc_errno")>>)
  ELSE IF e.disc = "fail"
    THEN Res(list, getIssuerConfig(e.disc) \o
                   <<ipc_writeOidcErrnoToPipe("discovery_failed")>>)
  ELSE IF e.disc = "no_token_endpoint"
    THEN Res(list, getIssuerConfig(e.disc) \o
                   <<ipc_writeOidcErrnoToPipe("oidc_errno")>>)
  ELSE
    LET w   == GenFlows(account, account_json, flow, 1, e, now)
        acc == [w.account EXCEPT !.username = FALSE, !.password = FALSE]
    IN IF w.ret THEN Res(list, getIssuerConfig(e.disc) \o w.out)
       ELSE IF account_refreshTokenIsValid(acc) /\ w.success
         THEN Res(addAccountToList(list, acc),
                  getIssuerConfig(e.disc) \o w.out \o
                  <<ipc_writeToPipe("success", "config",
                                    accountToJSONString(acc), 0)>>)
       ELSE Res(list, getIssuerConfig(e.disc) \o w.out \o
                <<ipc_writeToPipe("failure",
                     IF w.success THEN "no_refresh_token" ELSE "no_flow", 0, 0)>>)

\* ---- add ------------------------------------------------------------------
\* e = [disc, tok]; err = "" is OIDC_SUCCESS
\* e = [disc, tok, errno]; errno is the value an earlier call left in
\* oidc_errno ("" is OIDC_SUCCESS)
addAccount(account, list, e, now) ==
  IF account = NullAccount
    THEN [err |-> "argnull", list |-> list, out |-> <<>>]
  ELSE IF e.disc = "fail"
    THEN [err |-> "discovery_failed", list |-> list,
          out |-> getIssuerConfig(e.disc)]
  ELSE IF e.disc = "no_token_endpoint"
    \* no callee failed: the value returned is the one oidc_errno held before
    THEN [err |-> e.errno, list |-> list, out |-> getIssuerConfig(e.disc)]
  ELSE
    LET r == getAccessTokenUsingRefreshFlow(account, FORCE_NEW_TOKEN, FALSE,
                                            e.tok, now) IN
    IF r.token = 0
      THEN [err |-> "flow_failed", list |-> list,
            out |-> getIssuerConfig(e.disc) \o r.out]
    ELSE [err |-> "", list |-> addAccountToList(list, r.account),
          out |-> getIssuerConfig(e.disc) \o r.out]

oidcd_handleAdd(list, account_json, timeout_str, confirm_str, e, now, defaultTimeout) ==
  LET parsed  == getAccountFromJSON(account_json)
      timeout == IF strValid(timeout_str) THEN strToInt(timeout_str)
                 ELSE defaultTimeout
      account == [parsed EXCEPT
                    !.death = IF timeout # 0 THEN now + timeout ELSE 0,
                    !.confirmation_required =
                       IF strToInt(confirm_str) # 0 THEN TRUE ELSE @]
      node    == findInList(list, account)
  IN
  IF parsed = NullAccount
    THEN Res(list, <<ipc_writeOidcErrnoToPipe("oidc_errno")>>)
  ELSE IF node # 0 THEN
    IF list.val[node].death # account.death
      THEN LET found == [list.val[node] EXCEPT !.death = account.death] IN
           Res(addAccountToList(list_set(list, node, found), found),
               <<ipc_writeToPipe("success", "info_lifetime", timeout, 0)>>)
      ELSE Res(addAccountToList(list, list.val[node]),
               <<ipc_writeToPipe("success", "info_loaded", 0, 0)>>)
  ELSE
    LET a == addAccount(account, list, e, now) IN
    IF a.err # ""
      THEN Res(list, a.out \o <<ipc_writeOidcErrnoToPipe(a.err)>>)
    ELSE IF timeout > 0
      THEN Res(a.list, a.out \o
               <<ipc_writeToPipe("success", "info_lifetime", timeout, 0)>>)
    ELSE Res(a.list, a.out \o <<ipc_writeToPipe("success", "", 0, 0)>>)

\* ---- delete, remove, remove_all -------------------------------------------
revokeToken(account, rev) ==
  <<Http("revoke", IF rev THEN "ok" ELSE "fail", account.refresh_token)>>

\* oidcd_handleDelete with the record removed before the revocation is known
\* to have succeeded
oidcd_handleDelete_m(list, account_json, e) ==
  LET account    == getAccountFromJSON(account_json)
      found_node == findInList(list, account)
  IN
  IF account = NullAccount
    THEN Res(list, <<ipc_writeOidcErrnoToPipe("oidc_errno")>>)
  ELSE IF found_node = 0
    THEN Res(list, <<ipc_writeToPipe("failure", "not_loaded", 0, 0)>>)
  ELSE IF e.disc = "fail"
    THEN Res(list, getIssuerConfig(e.disc) \o
                   <<ipc_writeOidcErrnoToPipe("discovery_failed")>>)
  ELSE IF ~e.rev
    THEN Res(list_remove(list, found_node),
             getIssuerConfig(e.disc) \o revokeToken(account, e.rev) \o
             <<ipc_writeToPipe("failure", "revoke_failed", 0, 0)>>)
  ELSE Res(list_remove(list, found_node),
           getIssuerConfig(e.disc) \o revokeToken(account, e.rev) \o
           <<ipc_writeToPipe("success", "", 0, 0)>>)

\* e = [disc, rev]: the issuer's answers to discovery and to the revocation
oidcd_handleDelete(list, account_json, e) ==
  LET account    == getAccountFromJSON(account_json)
      found_node == findInList(list, account)
  IN
  IF account = NullAccount
    THEN Res(list, <<ipc_writeOidcErrnoToPipe("oidc_errno")>>)
  ELSE IF found_node = 0
    THEN Res(list, <<ipc_writeToPipe("failure", "not_loaded", 0, 0)>>)
  ELSE IF e.disc = "fail"
    THEN Res(list, getIssuerConfig(e.disc) \o
                   <<ipc_writeOidcErrnoToPipe("discovery_failed")>>)
  ELSE IF ~e.rev
    THEN Res(list, getIssuerConfig(e.disc) \o revokeToken(account, e.rev) \o
                   <<ipc_writeToPipe("failure", "revoke_failed", 0, 0)>>)
  ELSE Res(list_remove(list, found_node),
           getIssuerConfig(e.disc) \o revokeToken(account, e.rev) \o
           <<ipc_writeToPipe("success", "", 0, 0)>>)

\* oidcd_handleRm that answers success without removing the record
oidcd_handleRm_m(list, account_name) ==
  LET key   == [NullAccount EXCEPT !.shortname = account_name]
      found == findInList(list, key)
  IN
  IF account_name = ""
    THEN Res(list, <<ipc_writeToPipe("badrequest", "no_shortname", 0, 0)>>)
  ELSE IF found = 0
    THEN Res(list, <<ipc_writeToPipe("failure", "not_loaded", 0, 0)>>)
  ELSE Res(list, <<ipc_writeToPipe("success", "", 0, 0)>>)

\* oidcd_handleRm that removes the head of the list instead of the node found
oidcd_handleRm_head(list, account_name) ==
  LET key   == [NullAccount EXCEPT !.shortname = account_name]
      found == findInList(list, key)
  IN
  IF account_name = ""
    THEN Res(list, <<ipc_writeToPipe("badrequest", "no_shortname", 0, 0)>>)
  ELSE IF found = 0
    THEN Res(list, <<ipc_writeToPipe("failure", "not_loaded", 0, 0)>>)
  ELSE Res(list_remove(list, 1), <<ipc_writeToPipe("success", "", 0, 0)>>)

oidcd_handleRm(list, account_name) ==
  LET key   == [NullAccount EXCEPT !.shortname = account_name]
      found == findInList(list, key)
  IN
  IF account_name = ""
    THEN Res(list, <<ipc_writeToPipe("badrequest", "no_shortname", 0, 0)>>)
  ELSE IF found = 0
    THEN Res(list, <<ipc_writeToPipe("failure", "not_loaded", 0, 0)>>)
  ELSE Res(list_remove(list, found), <<ipc_writeToPipe("success", "", 0, 0)>>)

\* oidcd_handleRemoveAll that leaves the new list without the match function
\* of the old one
oidcd_handleRemoveAll_m(list) ==
  Res([match |-> "", val |-> <<>>],
      <<ipc_writeToPipe("success", "", 0, 0)>>)

oidcd_handleRemoveAll(list) ==
  Res([match |-> list.match, val |-> <<>>],
      <<ipc_writeToPipe("success", "", 0, 0)>>)

\* ---- access_token ----------------------------------------------------------
\* e.autoload = [kind, json]: the prompter's answer to the autoload request:
\* "null" (no answer), "cancelled" (user-cancelled sentinel), "error" (any
\* other error) or "config" with the account configuration json.
\* e.load_disc, e.load_tok: the issuer's answers while the config is loaded;
\* e.load_errno: the value oidc_errno held before.  now is the time at which
\* the prompter has answered: the clock is read after that.
oidcd_autoload(list, short_name, e, now, defaultTimeout) ==
  LET ask == <<ipc_communicateThroughPipe("autoload", short_name,
                                          e.autoload.kind)>> IN
  IF e.autoload.kind = "null"
    THEN [err |-> "prompter_failed", list |-> list, out |-> ask]
  ELSE IF e.autoload.kind = "cancelled"
    THEN [err |-> "OIDC_EUSRPWCNCL", list |-> list, out |-> ask]
  ELSE IF e.autoload.kind # "config"
    THEN [err |-> "prompter_error", list |-> list, out |-> ask]
  ELSE
    LET parsed  == getAccountFromJSON(e.autoload.json)
        account == IF parsed = NullAccount THEN parsed
                   ELSE [parsed EXCEPT !.death =
                           IF defaultTimeout # 0 THEN now + defaultTimeout
                           ELSE 0]
        a == addAccount(account, list,
                        [disc |-> e.load_disc, tok |-> e.load_tok,
                         errno |-> e.load_errno], now)
    IN [err |-> a.err, list |-> a.list, out |-> ask \o a.out]

\* reply: "success", "denied" or "null" (no answer from the prompter)
oidcd_getConfirmation(short_name, reply) ==
  [err |-> IF reply = "null" THEN "prompter_failed"
           ELSE IF reply = "success" THEN "" ELSE "denied",
   out |-> <<ipc_communicateThroughPipe("confirm", short_name, reply)>>]

\* lines 369-381: the token is taken from the record found under short_name
\* The refresh flow and the response of oidcd_handleToken.  An account that
\* is not in the list is a NULL pointer handed to the flow and to
\* addAccountToList: null is what they do with it, "crash" (the process
\* dies) or "error" (the flow returns NULL).
ServeToken(list, short_name, min_valid_period, scope, tok, now, out, null) ==
  LET key  == [NullAccount EXCEPT !.shortname = short_name]
      node == findInList(list, key)
  IN
  IF node = 0
    THEN IF null = "crash" THEN Res(list, out \o <<Crash>>)
         ELSE Res(list, out \o <<ipc_writeOidcErrnoToPipe("argnull")>>)
  ELSE
    LET r == getAccessTokenUsingRefreshFlow(list.val[node], min_valid_period,
                                            scope, tok, now)
        l == addAccountToList(list_set(list, node, r.account), r.account)
    IN IF r.token = 0
         THEN Res(l, out \o r.out \o <<ipc_writeOidcErrnoToPipe("flow_failed")>>)
         ELSE Res(l, out \o r.out \o
                  <<ipc_writeToPipe("success", "access_token", r.token,
                                    r.account.token_expires_at)>>)

\* e = [autoload, load_disc, load_tok, load_errno, wait, null, confirm, tok];
\* now is the time at which the request is read, e.wait the time the prompter
\* takes to answer the autoload or the confirm request: the flow that
\* follows reads the clock after it
oidcd_handleToken(list, short_name, min_valid_period_str, scope, args, e, now, defaultTimeout) ==
  LET key == [NullAccount EXCEPT !.shortname = short_name]
      min_valid_period == IF min_valid_period_str # ""
                            THEN strToInt(min_valid_period_str) ELSE 0
      node == findInList(list, key)
  IN
  IF short_name = ""
    THEN Res(list, <<ipc_writeToPipe("failure", "bad_request", 0, 0)>>)
  ELSE IF node = 0 THEN
    IF args.no_autoload
      THEN Res(list, <<ipc_writeToPipe("failure", "not_loaded", 0, 0)>>)
    ELSE
      LET al == oidcd_autoload(list, short_name, e, now + e.wait,
                               defaultTimeout) IN
      IF al.err = ""
        THEN ServeToken(al.list, short_name, min_valid_period, scope, e.tok,
                        now + e.wait, al.out, e.null)
      ELSE IF al.err = "OIDC_EUSRPWCNCL"
        THEN Res(list, al.out \o
                       <<ipc_writeToPipe("failure", "not_loaded", 0, 0)>>)
      ELSE Res(list, al.out \o <<ipc_writeOidcErrnoToPipe(al.err)>>)
  ELSE IF args.confirm \/ list.val[node].confirmation_required THEN
    LET c == oidcd_getConfirmation(short_name, e.confirm) IN
    IF c.err # ""
      THEN Res(list, c.out \o <<ipc_writeOidcErrnoToPipe(c.err)>>)
      ELSE ServeToken(list, short_name, min_valid_period, scope, e.tok,
                      now + e.wait, c.out, e.null)
  ELSE ServeToken(list, short_name, min_valid_period, scope, e.tok, now, <<>>,
                  e.null)

\* ---- register --------------------------------------------------------------
list_removeIfFound(flows, val) ==
  IF \E i \in 1..Len(flows) : flows[i] = val
    THEN LET k == CHOOSE i \in 1..Len(flows) :
                    flows[i] = val /\ \A j \in 1..(i - 1) : flows[j] # val
         IN [i \in 1..(Len(flows) - 1) |->
               IF i < k THEN flows[i] ELSE flows[i + 1]]
    ELSE flows

\* the post to the registration endpoint: n = number of flows sent,
\* m = 1 when the password flow is among them, name = the issuer's answer
dynamicRegistration(flows, res) ==
  <<Ev("http", IF res = "null" THEN "fail" ELSE "ok", "register", res,
       Len(flows),
       IF \E i \in 1..Len(flows) : flows[i] = FLOW_VALUE_PASSWORD
         THEN 1 ELSE 0)>>

\* oidcd_handleRegister that repeats the post with the flow list as it was
oidcd_handleRegister_same(list, account_json, flows_json_str, e) ==
  LET account == getAccountFromJSON(account_json)
      flows   == flows_json_str.list
      post1   == getIssuerConfig(e.disc) \o dynamicRegistration(flows, e.res)
      post2   == post1 \o dynamicRegistration(flows, e.res2)
  IN
  IF account = NullAccount
    THEN Res(list, <<ipc_writeOidcErrnoToPipe("oidc_errno")>>)
  ELSE IF findInList(list, account) # 0
    THEN Res(list, <<ipc_writeToPipe("failure", "already_loaded", 0, 0)>>)
  ELSE IF e.disc = "fail"
    THEN Res(list, getIssuerConfig(e.disc) \o
                   <<ipc_writeOidcErrnoToPipe("discovery_failed")>>)
  ELSE IF ~flows_json_str.valid
    THEN Res(list, getIssuerConfig(e.disc) \o
                   <<ipc_writeOidcErrnoToPipe("oidc_errno")>>)
  ELSE IF e.res = "null"
    THEN Res(list, post1 \o <<ipc_writeOidcErrnoToPipe("oidc_errno")>>)
  ELSE IF e.res = "nojson"
    THEN Res(list, post1 \o <<ipc_writeToPipe("failure", "no_json", 1, 0)>>)
  ELSE IF e.res \in {"error_desc", "error"} THEN
    IF e.res2 = "null"
      THEN Res(list, post2 \o <<ipc_writeOidcErrnoToPipe("oidc_errno")>>)
    ELSE IF e.res2 = "error"
      THEN Res(list, post2 \o
               <<ipc_writeToPipe("failure",
                    IF e.res = "error_desc" THEN "error_description"
                    ELSE "error", 1, 0)>>)
    ELSE Res(list, post2 \o <<ipc_writeToPipe("success", "client", 2, 0)>>)
  ELSE IF e.res = "unscoped"
    THEN Res(list, post1 \o
                   <<ipc_writeToPipe("failure", "error_client", 1, 0),
                     ipc_writeToPipe("success", "client", 1, 0)>>)
  ELSE Res(list, post1 \o <<ipc_writeToPipe("success", "client", 1, 0)>>)

\* oidcd_handleRegister without the look-up of a loaded account
oidcd_handleRegister_unchecked(list, account_json, flows_json_str, e) ==
  LET account == getAccountFromJSON(account_json)
      flows   == flows_json_str.list
      post1   == getIssuerConfig(e.disc) \o dynamicRegistration(flows, e.res)
      post2   == post1 \o dynamicRegistration(
                   list_removeIfFound(flows, FLOW_VALUE_PASSWORD), e.res2)
  IN
  IF account = NullAccount
    THEN Res(list, <<ipc_writeOidcErrnoToPipe("oidc_errno")>>)
  ELSE IF FALSE
    THEN Res(list, <<ipc_writeToPipe("failure", "already_loaded", 0, 0)>>)
  ELSE IF e.disc = "fail"
    THEN Res(list, getIssuerConfig(e.disc) \o
                   <<ipc_writeOidcErrnoToPipe("discovery_failed")>>)
  ELSE IF ~flows_json_str.valid
    THEN Res(list, getIssuerConfig(e.disc) \o
                   <<ipc_writeOidcErrnoToPipe("oidc_errno")>>)
  ELSE IF e.res = "null"
    THEN Res(list, post1 \o <<ipc_writeOidcErrnoToPipe("oidc_errno")>>)
  ELSE IF e.res = "nojson"
    THEN Res(list, post1 \o <<ipc_writeToPipe("failure", "no_json", 1, 0)>>)
  ELSE IF e.res \in {"error_desc", "error"} THEN
    IF e.res2 = "null"
      THEN Res(list, post2 \o <<ipc_writeOidcErrnoToPipe("oidc_errno")>>)
    ELSE IF e.res2 = "error"
      THEN Res(list, post2 \o
               <<ipc_writeToPipe("failure",
                    IF e.res = "error_desc" THEN "error_description"
                    ELSE "error", 1, 0)>>)
    ELSE Res(list, post2 \o <<ipc_writeToPipe("success", "client", 2, 0)>>)
  ELSE IF e.res = "unscoped"
    THEN Res(list, post1 \o
                   <<ipc_writeToPipe("failure", "error_client", 1, 0),
                     ipc_writeToPipe("success", "client", 1, 0)>>)
  ELSE Res(list, post1 \o <<ipc_writeToPipe("success", "client", 1, 0)>>)

\* e.res (first answer): "null", "nojson", "error_desc" (error and
\* error_description), "error" (error only), "ok" (both scopes granted),
\* "unscoped" (openid or offline_access missing);
\* e.res2 (second answer): "null", "error", "ok".
oidcd_handleRegister(list, account_json, flows_json_str, e) ==
  LET account == getAccountFromJSON(account_json)
      flows   == flows_json_str.list
      post1   == getIssuerConfig(e.disc) \o dynamicRegistration(flows, e.res)
      post2   == post1 \o dynamicRegistration(
                   list_removeIfFound(flows, FLOW_VALUE_PASSWORD), e.res2)
  IN
  IF account = NullAccount
    THEN Res(list, <<ipc_writeOidcErrnoToPipe("oidc_errno")>>)
  ELSE IF findInList(list, account) # 0
    THEN Res(list, <<ipc_writeToPipe("failure", "already_loaded", 0, 0)>>)
  ELSE IF e.disc = "fail"
    THEN Res(list, getIssuerConfig(e.disc) \o
                   <<ipc_writeOidcErrnoToPipe("discovery_failed")>>)
  ELSE IF ~flows_json_str.valid
    THEN Res(list, getIssuerConfig(e.disc) \o
                   <<ipc_writeOidcErrnoToPipe("oidc_errno")>>)
  ELSE IF e.res = "null"
    THEN Res(list, post1 \o <<ipc_writeOidcErrnoToPipe("oidc_errno")>>)
  ELSE IF e.res = "nojson"
    THEN Res(list, post1 \o <<ipc_writeToPipe("failure", "no_json", 1, 0)>>)
  ELSE IF e.res \in {"error_desc", "error"} THEN
    IF e.res2 = "null"
      THEN Res(list, post2 \o <<ipc_writeOidcErrnoToPipe("oidc_errno")>>)
    ELSE IF e.res2 = "error"
      THEN Res(list, post2 \o
               <<ipc_writeToPipe("failure",
                    IF e.res = "error_desc" THEN "error_description"
                    ELSE "error", 1, 0)>>)
    ELSE Res(list, post2 \o <<ipc_writeToPipe("success", "client", 2, 0)>>)
  ELSE IF e.res = "unscoped"
    THEN Res(list, post1 \o
                   <<ipc_writeToPipe("failure", "error_client", 1, 0),
                     ipc_writeToPipe("success", "client", 1, 0)>>)
  ELSE Res(list, post1 \o <<ipc_writeToPipe("success", "client", 1, 0)>>)

\* ---- code_exchange, device_lookup, state_lookup, term_http ------------------
\* e = [disc, tok]
oidcd_handleCodeExchange(list, account_json, state, e, now) ==
  LET account == getAccountFromJSON(account_json)
      r == getAccessTokenUsingAuthCodeFlow(account, e.tok, now)
  IN
  IF account = NullAccount
    THEN Res(list, <<ipc_writeOidcErrnoToPipe("oidc_errno")>>)
  ELSE IF e.disc = "fail"
    THEN Res(list, getIssuerConfig(e.disc) \o
                   <<ipc_writeOidcErrnoToPipe("discovery_failed")>>)
  ELSE IF r.token = 0
    THEN Res(list, getIssuerConfig(e.disc) \o r.out \o
                   <<ipc_writeOidcErrnoToPipe("flow_failed")>>)
  ELSE IF account_refreshTokenIsValid(r.account)
    THEN Res(addAccountToList(list, [r.account EXCEPT !.usedState = state]),
             getIssuerConfig(e.disc) \o r.out \o
             <<ipc_writeToPipe("success", "config",
                               accountToJSONString(r.account), 0)>>)
  ELSE Res(list, getIssuerConfig(e.disc) \o r.out \o
                 <<ipc_writeToPipe("failure", "no_refresh_token", 0, 0)>>)

\* device_json: TRUE when getDeviceCodeFromJSON can parse the "device" value
oidcd_handleDeviceLookup(list, account_json, device_json, e, now) ==
  LET account == getAccountFromJSON(account_json)
      r == getAccessTokenUsingDeviceFlow(account, e.tok, now)
  IN
  IF account = NullAccount
    THEN Res(list, <<ipc_writeOidcErrnoToPipe("oidc_errno")>>)
  ELSE IF ~device_json
    THEN Res(list, <<ipc_writeOidcErrnoToPipe("oidc_errno")>>)
  ELSE IF e.disc = "fail"
    THEN Res(list, getIssuerConfig(e.disc) \o
                   <<ipc_writeOidcErrnoToPipe("discovery_failed")>>)
  ELSE IF r.token = 0
    THEN Res(list, getIssuerConfig(e.disc) \o r.out \o
                   <<ipc_writeOidcErrnoToPipe("flow_failed")>>)
  ELSE IF account_refreshTokenIsValid(r.account)
    THEN Res(addAccountToList(list, r.account),
             getIssuerConfig(e.disc) \o r.out \o
             <<ipc_writeToPipe("success", "config",
                               accountToJSONString(r.account), 0)>>)
  ELSE Res(list, getIssuerConfig(e.disc) \o r.out \o
                 <<ipc_writeToPipe("failure", "no_refresh_token", 0, 0)>>)

termHttpServer(state) == <<Ev("httpserver", "", "term", "", state, 0)>>

oidcd_handleStateLookUp(list, state) ==
  LET key      == [NullAccount EXCEPT !.usedState = state]
      oldMatch == list.match
      node     == findInList([list EXCEPT !.match = "account_matchByState"],
                             key)
      restored == [list EXCEPT !.match = oldMatch]
  IN
  IF node = 0
    THEN Res(restored, <<ipc_writeToPipe("notfound", "info", state, 0)>>)
  ELSE
    LET account == [restored.val[node] EXCEPT !.usedState = 0] IN
    Res(addAccountToList(list_set(restored, node, account), account),
        <<ipc_writeToPipe("success", "config", accountToJSONString(account),
                          0)>> \o termHttpServer(state))

oidcd_handleTermHttp(state) ==
  termHttpServer(state) \o <<ipc_writeToPipe("success", "", 0, 0)>>

\* ---- lock state --------------------------------------------------------------
\* lock_state = [locked, hash]; the verifier is kept as the passphrase it was
\* derived from ("" while unlocked).
\* The hidden representation of a record's secrets: a token t is kept as -t
\* (the empty token 0 stays 0); the same operation returns it to plain.
lockEncrypt(account) ==
  [account EXCEPT !.refresh_token = 0 - @, !.access_token = 0 - @]

lockDecrypt(account) ==
  [account EXCEPT !.refresh_token = 0 - @, !.access_token = 0 - @]

lock(lock_state, list, password) ==
  IF lock_state.locked
    THEN [err |-> "locked", lock_state |-> lock_state, list |-> list]
    ELSE [err |-> "", lock_state |-> [locked |-> TRUE, hash |-> password],
          list |-> [list EXCEPT !.val =
                      [i \in 1..Len(list.val) |-> lockEncrypt(list.val[i])]]]

\* unlock that opens the gate and leaves the secrets hidden
unlock_m(lock_state, list, password) ==
  IF ~lock_state.locked
    THEN [err |-> "not_locked", lock_state |-> lock_state, list |-> list]
  ELSE IF lock_state.hash # password
    THEN [err |-> "bad_password", lock_state |-> lock_state, list |-> list]
  ELSE [err |-> "", lock_state |-> [locked |-> FALSE, hash |-> ""],
        list |-> list]

unlock(lock_state, list, password) ==
  IF ~lock_state.locked
    THEN [err |-> "not_locked", lock_state |-> lock_state, list |-> list]
  ELSE IF lock_state.hash # password
    THEN [err |-> "bad_password", lock_state |-> lock_state, list |-> list]
  ELSE [err |-> "", lock_state |-> [locked |-> FALSE, hash |-> ""],
        list |-> [list EXCEPT !.val =
                    [i \in 1..Len(list.val) |-> lockDecrypt(list.val[i])]]]

\* oidcd_handleLock that answers success whatever lock or unlock returned
oidcd_handleLock_m(lock_state, list, password, _lock) ==
  LET r == IF _lock THEN lock(lock_state, list, password)
           ELSE unlock(lock_state, list, password)
  IN [lock_state |-> r.lock_state, list |-> r.list,
      out |-> <<ipc_writeToPipe("success",
                   IF _lock THEN "locked" ELSE "unlocked", 0, 0)>>]

oidcd_handleLock(lock_state, list, password, _lock) ==
  LET r == IF _lock THEN lock(lock_state, list, password)
           ELSE unlock(lock_state, list, password)
  IN IF r.err = ""
       THEN [lock_state |-> r.lock_state, list |-> r.list,
             out |-> <<ipc_writeToPipe("success",
                          IF _lock THEN "locked" ELSE "unlocked", 0, 0)>>]
       ELSE [lock_state |-> r.lock_state, list |-> r.list,
             out |-> <<ipc_writeOidcErrnoToPipe(r.err)>>]

\* ---- dispatch -------------------------------------------------------------------
\* dispatch with remove_all let through while locked
dispatch_m(lock_state, request, list, r) ==
  IF lock_state.locked /\ request \notin {"unlock", "remove_all"}
    THEN Res(list, <<ipc_writeOidcErrnoToPipe("locked")>>)
    ELSE r

\* While locked every request except unlock is answered with the locked error
\* and no handler runs.
dispatch(lock_state, request, list, r) ==
  IF lock_state.locked /\ request # "unlock"
    THEN Res(list, <<ipc_writeOidcErrnoToPipe("locked")>>)
    ELSE r

\* ---- oidc-agent.c: the stand-alone agent --------------------------------------
\* Its providers live in the array loaded_p, searched by shortname.  The
\* model keeps the array in the same list value the oidcd handlers use, and
\* a provider has the fields of an account.
getProviderFromJSON(provider_json) == getAccountFromJSON(provider_json)
findProvider(loaded_p, provider)   == findInList(loaded_p, provider)
addProvider(loaded_p, provider)    == list_rpush(loaded_p, provider)
removeProvider(loaded_p, provider) ==
  IF findProvider(loaded_p, provider) = 0 THEN loaded_p
  ELSE list_remove(loaded_p, findProvider(loaded_p, provider))
ipc_write(status, what, n)         == ipc_writeToPipe(status, what, n, 0)
getEndpoints(disc)                 == getIssuerConfig(disc)
\* the provider after getEndpoints: a discovery that succeeded sets the token
\* endpoint, any other leaves the one the provider has
withEndpoints(provider, disc) ==
  [provider EXCEPT !.token_endpoint = @ \/ disc = "ok"]
provider_getTokenEndpoint(provider) ==
  IF provider.token_endpoint THEN "token_endpoint" ELSE ""
isValid(s)                         == strValid(s)

retrieveAccessTokenRefreshFlowOnly(provider, min_valid_period, resp, now) ==
  getAccessTokenUsingRefreshFlow(provider, min_valid_period, FALSE, resp, now)

\* the refresh flow and, when it gives no token, the password flow;
\* tok = <<answer to the refresh post, answer to the password post>>
retrieveAccessToken(provider, min_valid_period, tok, now) ==
  LET r == retrieveAccessTokenRefreshFlowOnly(provider, min_valid_period,
                                              tok[1], now)
      p == getAccessTokenUsingPasswordFlow(r.account, tok[2], now)
  IN IF r.token # 0 THEN r
     ELSE FlowRes(p.account, p.token, r.out \o p.out)

\* handleGen that adds the provider without removing an older one first
handleGen_m(loaded_p, provider_json, e, now) ==
  LET parsed   == getProviderFromJSON(provider_json)
      provider == withEndpoints(parsed, e.disc)
      r        == retrieveAccessToken(provider, FORCE_NEW_TOKEN, e.tok, now)
      loaded   == [r.account EXCEPT !.username = FALSE, !.password = FALSE]
  IN
  IF parsed = NullAccount
    THEN Res(loaded_p, <<ipc_write("failure", "oidc_errno", 0)>>)
  ELSE IF ~isValid(provider_getTokenEndpoint(provider))
    THEN Res(loaded_p, getEndpoints(e.disc) \o
                       <<ipc_write("failure", "oidc_errno", 0)>>)
  ELSE IF r.token = 0
    THEN Res(loaded_p, getEndpoints(e.disc) \o r.out \o
                       <<ipc_write("failure", "oidc_errno", 0)>>)
  ELSE Res(addProvider(loaded_p, loaded),
           getEndpoints(e.disc) \o r.out \o
           <<ipc_write("success",
                       IF account_refreshTokenIsValid(r.account)
                         THEN "endpoint_refresh" ELSE "endpoint",
                       r.account.refresh_token)>>)

\* e = [disc, tok].  The outcome of getEndpoints is not tested: the test is
\* on the token endpoint the provider has after it.
handleGen(loaded_p, provider_json, e, now) ==
  LET parsed   == getProviderFromJSON(provider_json)
      provider == withEndpoints(parsed, e.disc)
      r        == retrieveAccessToken(provider, FORCE_NEW_TOKEN, e.tok, now)
      loaded   == [r.account EXCEPT !.username = FALSE, !.password = FALSE]
  IN
  IF parsed = NullAccount
    THEN Res(loaded_p, <<ipc_write("failure", "oidc_errno", 0)>>)
  ELSE IF ~isValid(provider_getTokenEndpoint(provider))
    THEN Res(loaded_p, getEndpoints(e.disc) \o
                       <<ipc_write("failure", "oidc_errno", 0)>>)
  ELSE IF r.token = 0
    THEN Res(loaded_p, getEndpoints(e.disc) \o r.out \o
                       <<ipc_write("failure", "oidc_errno", 0)>>)
  ELSE Res(addProvider(removeProvider(loaded_p, loaded), loaded),
           getEndpoints(e.disc) \o r.out \o
           <<ipc_write("success",
                       IF account_refreshTokenIsValid(r.account)
                         THEN "endpoint_refresh" ELSE "endpoint",
                       r.account.refresh_token)>>)

\* e = [tok (first and second refresh post), disc, changed (discovery names
\* another token endpoint than the configuration), null].  A provider without
\* a token endpoint cannot refresh; its token endpoint is then handed to
\* strlen and strcpy as it is: e.null is what they do with it, "crash" (a
\* NULL pointer, the process dies) or "error" (an empty string).
handleAdd(loaded_p, provider_json, e, now) ==
  LET provider == getProviderFromJSON(provider_json)
      r1 == retrieveAccessTokenRefreshFlowOnly(
              provider, FORCE_NEW_TOKEN,
              IF provider.token_endpoint THEN e.tok[1] ELSE NoResponse, now)
      found   == withEndpoints(r1.account, e.disc)
      changed == IF provider.token_endpoint THEN e.disc = "ok" /\ e.changed
                 ELSE found.token_endpoint
      r2 == retrieveAccessTokenRefreshFlowOnly(found, FORCE_NEW_TOKEN,
                                               e.tok[2], now)
  IN
  IF provider = NullAccount
    THEN Res(loaded_p, <<ipc_write("failure", "oidc_errno", 0)>>)
  ELSE IF findProvider(loaded_p, provider) # 0
    THEN Res(loaded_p, <<ipc_write("failure", "already_loaded", 0)>>)
  ELSE IF r1.token # 0
    THEN Res(addProvider(loaded_p, r1.account),
             r1.out \o <<ipc_write("success", "", 0)>>)
  ELSE IF ~provider.token_endpoint /\ e.null = "crash"
    THEN Res(loaded_p, r1.out \o <<Crash>>)
  ELSE IF ~changed
    THEN Res(loaded_p, r1.out \o getEndpoints(e.disc) \o
                       <<ipc_write("failure", "oidc_errno", 0)>>)
  ELSE IF r2.token = 0
    THEN Res(loaded_p, r1.out \o getEndpoints(e.disc) \o r2.out \o
                       <<ipc_write("failure", "oidc_errno", 0)>>)
  ELSE Res(addProvider(loaded_p, r2.account),
           r1.out \o getEndpoints(e.disc) \o r2.out \o
           <<ipc_write("success", "", 0)>>)

\* remove (revoke = FALSE) and delete (revoke = TRUE);  e = [rev]
handleRm(loaded_p, provider_json, revoke, e) ==
  LET provider == getProviderFromJSON(provider_json) IN
  IF provider = NullAccount
    THEN Res(loaded_p, <<ipc_write("failure", "oidc_errno", 0)>>)
  ELSE IF findProvider(loaded_p, provider) = 0
    THEN Res(loaded_p, <<ipc_write("failure", "not_loaded", 0)>>)
  ELSE IF revoke /\ ~e.rev
    THEN Res(loaded_p, revokeToken(provider, e.rev) \o
                       <<ipc_write("failure", "revoke_failed", 0)>>)
  ELSE Res(removeProvider(loaded_p, provider),
           (IF revoke THEN revokeToken(provider, e.rev) ELSE <<>>) \o
           <<ipc_write("success", "", 0)>>)

\* short_name = "" is a request without the provider key, has_period = FALSE
\* one without the min_valid_period key;  e = [tok]
handleToken(loaded_p, short_name, has_period, min_valid_period_str, e, now) ==
  LET key  == [NullAccount EXCEPT !.shortname = short_name]
      node == findProvider(loaded_p, key)
      r    == retrieveAccessTokenRefreshFlowOnly(
                loaded_p.val[node], strToInt(min_valid_period_str), e.tok,
                now)
  IN
  IF short_name = "" \/ ~has_period
    THEN Res(loaded_p, <<ipc_write("failure", "bad_request", 0)>>)
  ELSE IF node = 0
    THEN Res(loaded_p, <<ipc_write("failure", "not_loaded", 0)>>)
  ELSE IF r.token = 0
    THEN Res(list_set(loaded_p, node, r.account),
             r.out \o <<ipc_write("failure", "oidc_errno", 0)>>)
  ELSE Res(list_set(loaded_p, node, r.account),
           r.out \o <<ipc_write("success", "access_token", r.token)>>)

\* dynamicRegistration(provider, usePasswordGrantType) of the stand-alone
\* agent
dynamicRegistrationGrant(usePasswordGrantType, res) ==
  <<Ev("http", IF res = "null" THEN "fail" ELSE "ok", "register", res,
       IF usePasswordGrantType THEN 1 ELSE 0,
       IF usePasswordGrantType THEN 1 ELSE 0)>>

\* The answer is the list of names unless oidc_errno is OIDC_EARGNULL when
\* getProviderNameList has returned (argnull): the value it set for an empty
\* list, or the one an earlier call left.
handleList(loaded_p, argnull) ==
  Res(loaded_p, <<ipc_write("success", "provider_list",
                            IF argnull THEN 0 ELSE Len(loaded_p.val))>>)

\* e = [disc, res, res2]: res and res2 are "null", "error" or "ok"
handleRegister(loaded_p, provider_json, e) ==
  LET provider == getProviderFromJSON(provider_json)
      post1 == getEndpoints(e.disc) \o dynamicRegistrationGrant(TRUE, e.res)
      post2 == post1 \o dynamicRegistrationGrant(FALSE, e.res2)
  IN
  IF provider = NullAccount
    THEN Res(loaded_p, <<ipc_write("failure", "oidc_errno", 0)>>)
  ELSE IF findProvider(loaded_p, provider) # 0
    THEN Res(loaded_p, <<ipc_write("failure", "already_loaded", 0)>>)
  ELSE IF e.disc # "ok"
    THEN Res(loaded_p, getEndpoints(e.disc) \o
                       <<ipc_write("failure", "oidc_errno", 0)>>)
  ELSE IF e.res = "null"
    THEN Res(loaded_p, post1 \o <<ipc_write("failure", "oidc_errno", 0)>>)
  ELSE IF e.res = "ok"
    THEN Res(loaded_p, post1 \o <<ipc_write("success", "client", 1)>>)
  ELSE IF e.res2 = "null"
    THEN Res(loaded_p, post2 \o <<ipc_write("failure", "oidc_errno", 0)>>)
  ELSE IF e.res2 = "error"
    THEN Res(loaded_p, post2 \o <<ipc_write("failure", "error", 1)>>)
  ELSE Res(loaded_p, post2 \o <<ipc_write("failure", "error_client_info", 2)>>)

\* ---- inputs ----------------------------------------------------------------------
Discs          == {"ok", "no_token_endpoint", "fail"}
TokenResponses == {NoResponse} \cup
                  {TokenResponse(TRUE, x, rt) :
                     x \in 1..MaxExpiresIn, rt \in {0} \cup IssuerTokens}
Flows          == {FLOW_VALUE_REFRESH, FLOW_VALUE_PASSWORD, FLOW_VALUE_CODE,
                   FLOW_VALUE_DEVICE, "bogus"}
TokenFlows     == {FLOW_VALUE_REFRESH, FLOW_VALUE_PASSWORD}
\* flow lists of up to two entries; behind an entry that is neither refresh
\* nor password one second entry stands for all
FlowLists      == {<<>>} \cup {<<f>> : f \in Flows} \cup
                  {<<f, g>> : f \in TokenFlows, g \in Flows} \cup
                  {<<f, FLOW_VALUE_REFRESH>> : f \in Flows \ TokenFlows}
\* account bodies of gen requests: with a refresh token, with username and
\* password, with both, or with neither
GenJSONs       == {BadJSON} \cup
                  {AccountJSON(TRUE, sn, rt, FALSE, FALSE, redir) :
                     sn \in Shortnames, rt \in ClientTokens,
                     redir \in BOOLEAN} \cup
                  {AccountJSON(TRUE, sn, rt, TRUE, TRUE, FALSE) :
                     sn \in Shortnames, rt \in ClientTokens} \cup
                  {AccountJSON(TRUE, sn, 0, c, c, redir) :
                     sn \in Shortnames, c \in BOOLEAN, redir \in BOOLEAN}
\* stored account configurations (add, delete, autoload)
ConfigJSON(sn, rt) == AccountJSON(TRUE, sn, rt, FALSE, FALSE, TRUE)
ConfigJSONs    == {BadJSON} \cup
                  {ConfigJSON(sn, rt) : sn \in Shortnames, rt \in ClientTokens}
\* configurations still without tokens (register, code_exchange, device_lookup)
FreshJSONs     == {BadJSON} \cup
                  {AccountJSON(TRUE, sn, 0, FALSE, FALSE, TRUE) :
                     sn \in Shortnames}
RegisterFlows  == {[valid |-> FALSE, list |-> <<>>],
                   [valid |-> TRUE, list |-> <<FLOW_VALUE_CODE>>],
                   [valid |-> TRUE,
                    list |-> <<FLOW_VALUE_PASSWORD, FLOW_VALUE_CODE>>]}
TimeoutStrs    == {"", "0", "1"}
ConfirmStrs    == {"", "1"}
PeriodStrs     == {""} \cup {Digits[p + 1] : p \in 1..MaxPeriod}
Passwords      == {"pw", "bad"}
LockPasswords  == Passwords

DefaultGenEnv ==
  [disc |-> "fail", tok |-> <<>>, dev |-> TRUE, uri |-> TRUE, state |-> 0]

\* the environments that make a difference to gen(json, flow), once
\* discovery has succeeded: an entry gets an answer of the issuer only when
\* the walk can reach it and the account body holds what the entry posts;
\* state is the random state initAuthCodeFlow would draw
GenEnvs(json, flow, state) ==
  LET reached(t, i) == \A j \in 1..(i - 1) :
                          flow[j] \in TokenFlows /\ ~t[j].ok
      posts(i) == \/ flow[i] = FLOW_VALUE_REFRESH /\ json.refresh_token # 0
                  \/ flow[i] = FLOW_VALUE_PASSWORD /\ json.username
                       /\ json.password
      toks == {t \in [1..Len(flow) -> TokenResponses] :
                 \A i \in 1..Len(flow) :
                    (~posts(i) \/ ~reached(t, i)) => t[i] = NoResponse}
      code(t)   == \E i \in 1..Len(flow) :
                      /\ flow[i] = FLOW_VALUE_CODE /\ reached(t, i)
                      /\ json.redirect_uris
      device(t) == \E i \in 1..Len(flow) :
                      flow[i] = FLOW_VALUE_DEVICE /\ reached(t, i)
  IN
  UNION {
    IF code(t)
      THEN {[disc |-> "ok", tok |-> t, dev |-> TRUE, uri |-> u,
             state |-> state] : u \in BOOLEAN}
    ELSE IF device(t)
      THEN {[disc |-> "ok", tok |-> t, dev |-> dv, uri |-> TRUE,
             state |-> 0] : dv \in BOOLEAN}
    ELSE {[disc |-> "ok", tok |-> t, dev |-> TRUE, uri |-> TRUE,
           state |-> 0]} : t \in toks}

\* the environments in which gen does not get to its flow list
GenFailEnvs ==
  {[DefaultGenEnv EXCEPT !.disc = d] : d \in {"fail", "no_token_endpoint"}}

\* environments of one discovery followed by one token request
\* the values an earlier call can have left in oidc_errno: OIDC_SUCCESS (""),
\* the user-cancelled sentinel, or any other error
StaleErrnos == {"", "OIDC_EUSRPWCNCL", "oidc_errno"}

LoadEnvs ==
  {[disc |-> "fail", tok |-> NoResponse, errno |-> "oidc_errno"]}
  \cup {[disc |-> "no_token_endpoint", tok |-> NoResponse, errno |-> x] :
          x \in StaleErrnos}
  \cup {[disc |-> "ok", tok |-> t, errno |-> "oidc_errno"] :
          t \in TokenResponses}

FlowEnvs ==
  {[disc |-> "fail", tok |-> NoResponse]}
  \cup {[disc |-> "ok", tok |-> t] : t \in TokenResponses}

DeleteEnvs ==
  {[disc |-> "fail", rev |-> FALSE]} \cup
  {[disc |-> "ok", rev |-> rv] : rv \in BOOLEAN}

RegisterEnvs ==
  {[disc |-> "fail", res |-> "null", res2 |-> "null"]} \cup
  {[disc |-> "ok", res |-> r, res2 |-> "null"] :
     r \in {"null", "nojson", "ok", "unscoped"}} \cup
  {[disc |-> "ok", res |-> r, res2 |-> r2] :
     r \in {"error_desc", "error"}, r2 \in {"null", "error", "ok"}}

DefaultTokenEnv ==
  [autoload |-> [kind |-> "null", json |-> BadJSON], load_disc |-> "fail",
   load_tok |-> NoResponse, load_errno |-> "oidc_errno", wait |-> 0,
   null |-> "error", confirm |-> "null", tok |-> NoResponse]

\* the time the prompter takes to answer
Waits == 0..MaxWait
\* what the flow does with a NULL account
NullOutcomes == {"error", "crash"}

\* the environments that make a difference to access_token(short_name)
TokenEnvs(list, short_name, args) ==
  LET node == findInList(list, [NullAccount EXCEPT !.shortname = short_name])
  IN
  IF short_name = "" \/ (node = 0 /\ args.no_autoload) THEN {DefaultTokenEnv}
  ELSE IF node = 0 THEN
    {[DefaultTokenEnv EXCEPT !.autoload = [kind |-> k, json |-> BadJSON]] :
       k \in {"null", "cancelled", "error", "config"}} \cup
    {[DefaultTokenEnv EXCEPT
        !.autoload = [kind |-> "config", json |-> ConfigJSON(short_name, rt)],
        !.load_disc = "fail"] : rt \in ClientTokens} \cup
    {[DefaultTokenEnv EXCEPT
        !.autoload = [kind |-> "config", json |-> ConfigJSON(short_name, rt)],
        !.load_disc = "no_token_endpoint", !.load_errno = x] :
       x \in StaleErrnos \ {""}, rt \in ClientTokens} \cup
    {[DefaultTokenEnv EXCEPT
        !.autoload = [kind |-> "config", json |-> ConfigJSON(short_name, rt)],
        !.load_disc = "no_token_endpoint", !.load_errno = "", !.null = n] :
       n \in NullOutcomes, rt \in ClientTokens} \cup
    {[DefaultTokenEnv EXCEPT
        !.autoload = [kind |-> "config", json |-> ConfigJSON(short_name, rt)],
        !.load_disc = "ok", !.wait = w] :
       rt \in ClientTokens, w \in Waits} \cup
    {[DefaultTokenEnv EXCEPT
        !.autoload = [kind |-> "config", json |-> ConfigJSON(short_name, rt)],
        !.load_disc = "ok", !.load_tok = t1, !.tok = t2, !.wait = w] :
       t1 \in TokenResponses \ {NoResponse}, t2 \in TokenResponses,
       rt \in ClientTokens, w \in Waits}
  ELSE IF args.confirm \/ list.val[node].confirmation_required THEN
    {[DefaultTokenEnv EXCEPT !.confirm = c, !.wait = w] :
       c \in {"null", "denied"}, w \in Waits} \cup
    {[DefaultTokenEnv EXCEPT !.confirm = "success", !.tok = t, !.wait = w] :
       t \in TokenResponses, w \in Waits}
  ELSE {[DefaultTokenEnv EXCEPT !.tok = t] : t \in TokenResponses}

\* ---- state ------------------------------------------------------------------------
VARIABLES
  loaded_accounts,  \* the list of loaded accounts: [match, val]
  agent_state,      \* [defaultTimeout, lock_state]
  arguments,        \* command line: [no_autoload, confirm]
  now,              \* the clock, time(NULL)
  con,              \* the connection being served: request and events so far
  issued,           \* history: issued[k] is the shortname gen handed state k to
  agent             \* which of the two agents runs: "oidcd" or "oidc-agent"

vars == <<loaded_accounts, agent_state, arguments, now, con, issued, agent>>

\* the further values of a request: the account body, the flow list (gen,
\* register) and the timeout and confirm strings (add)
Arg(json, flow, timeout_str, confirm_str) ==
  [json |-> json, flow |-> flow, timeout_str |-> timeout_str,
   confirm_str |-> confirm_str]

NoArg == Arg(BadJSON, <<>>, "", "")

\* the add request, the lock request that locked the agent, or the
\* state_lookup request that found a record, that was answered last, when no
\* other request came after it: its shortname and the list it found (kept
\* while the agent is idle and while the remove request that follows the add,
\* the unlock request that follows the lock, or the state_lookup and
\* code_exchange requests that follow the state_lookup, are served)
Prev(request, shortname, pre) ==
  [request |-> request, shortname |-> shortname, pre |-> pre]

NoPrev == Prev("none", "", [match |-> "", val |-> <<>>])

\* no connection is being served
NoCon == [request |-> "none", shortname |-> "", n |-> 0, at |-> 0,
          locked |-> FALSE,
          hash |-> "", password |-> "", message |-> "",
          pre |-> [match |-> "", val |-> <<>>], out |-> <<>>,
          arg |-> NoArg, prev |-> NoPrev]

\* the connection of a request: its kind, the shortname and the number
\* (min_valid_period or state) it carries, the lock state (gate and verifier)
\* and the list it found, the passphrase of a lock or unlock request, what
\* reading and parsing the message gave ("ok": a request of a known kind), and
\* the events of its handler; at is the time at which the request was read
Con(request, shortname, n, out) ==
  [request |-> request, shortname |-> shortname, n |-> n, at |-> now,
   locked |-> agent_state.lock_state.locked,
   hash |-> agent_state.lock_state.hash, password |-> "", message |-> "ok",
   pre |-> loaded_accounts,
   out |-> out, arg |-> NoArg, prev |-> NoPrev]

Init ==
  /\ loaded_accounts = [match |-> "account_matchByName", val |-> <<>>]
  /\ agent_state = [defaultTimeout |-> 0,
                    lock_state |-> [locked |-> FALSE, hash |-> ""]]
  /\ agent \in {"oidcd", "oidc-agent"}
  /\ arguments \in [no_autoload : BOOLEAN, confirm : BOOLEAN]
  \* the stand-alone agent has neither option
  /\ agent = "oidc-agent" => arguments = [no_autoload |-> TRUE,
                                          confirm |-> FALSE]
  /\ now = 0
  /\ con = NoCon
  /\ issued = <<>>

\* the events of kind ev in a sequence of events
Select(out, ev) == SelectSeq(out, LAMBDA x : x.ev = ev)

\* initAuthCodeFlow draws a random state of 24 characters: a state that was
\* never drawn before.  The k-th state drawn is k.
FreshState == Len(issued) + 1

\* out holds the code_uri response of initAuthCodeFlow
HasCodeUri(out) == \E i \in 1..Len(out) : out[i].what = "code_uri"

\* One request of the accept loop: the request is read, dispatched, and the
\* handler's response is written.
\* wait is the time the handler waited for the prompter before it read the
\* clock.
ServeWait(request, shortname, n, r, arg, wait) ==
  LET d == dispatch(agent_state.lock_state, request, loaded_accounts, r) IN
  /\ con.request = "none"
  /\ now + wait <= MaxTime
  /\ HasCodeUri(d.out) => Len(issued) < MaxState
  /\ loaded_accounts' = d.list
  /\ con' = [Con(request, shortname, n, d.out) EXCEPT
               !.arg = arg,
               !.prev = IF \/ request = "remove" /\ con.prev.request = "add"
                           \/ /\ request \in {"state_lookup", "code_exchange"}
                              /\ con.prev.request = "state_lookup"
                          THEN con.prev ELSE NoPrev]
  /\ issued' = IF HasCodeUri(d.out) THEN Append(issued, shortname)
                ELSE issued
  /\ now' = now + wait
  /\ UNCHANGED <<agent_state, arguments, agent>>

ServeArg(request, shortname, n, r, arg) ==
  ServeWait(request, shortname, n, r, arg, 0)

Serve(request, shortname, n, r) == ServeArg(request, shortname, n, r, NoArg)

Locked   == agent_state.lock_state.locked
\* oidcd serves one request at a time
Idle     == agent = "oidcd" /\ con.request = "none"
Rejected == Res(loaded_accounts, <<>>)

\* ---- actions: one per request kind ---------------------------------------------------
Gen ==
  /\ Idle
  /\ IF Locked
       THEN \E sn \in Shortnames \cup {""} : Serve("gen", sn, 0, Rejected)
     ELSE \E json \in GenJSONs :
       \/ \E e \in GenFailEnvs :
            ServeArg("gen", json.shortname, 0,
                     oidcd_handleGen(loaded_accounts, json, <<>>, e, now),
                     Arg(json, <<>>, "", ""))
       \/ /\ json.valid
          /\ \E flow \in FlowLists :
               \E e \in GenEnvs(json, flow, FreshState) :
                 ServeArg("gen", json.shortname, 0,
                          oidcd_handleGen(loaded_accounts, json, flow, e, now),
                          Arg(json, flow, "", ""))

\* the environments that make a difference to add(json): the issuer is asked
\* only for an account that is not loaded yet
AddEnvs(list, json) ==
  IF ~json.valid \/ findInList(list, getAccountFromJSON(json)) # 0
    THEN {[disc |-> "fail", tok |-> NoResponse, errno |-> "oidc_errno"]}
    ELSE LoadEnvs

Add ==
  /\ Idle
  /\ IF Locked
       THEN \E sn \in Shortnames \cup {""} : Serve("add", sn, 0, Rejected)
     ELSE \E json \in ConfigJSONs :
       \E timeout_str \in IF json.valid THEN TimeoutStrs ELSE {""},
          confirm_str \in IF json.valid THEN ConfirmStrs ELSE {""} :
         \E e \in AddEnvs(loaded_accounts, json) :
           ServeArg("add", json.shortname, 0,
                    oidcd_handleAdd(loaded_accounts, json, timeout_str,
                                    confirm_str, e, now,
                                    agent_state.defaultTimeout),
                    Arg(json, <<>>, timeout_str, confirm_str))

Remove ==
  Idle /\
  \E account_name \in Shortnames \cup {""} :
    Serve("remove", account_name, 0,
          oidcd_handleRm(loaded_accounts, account_name))

\* the environments that make a difference to delete(json)
DeleteEnvsOf(list, json) ==
  IF ~json.valid \/ findInList(list, getAccountFromJSON(json)) = 0
    THEN {[disc |-> "fail", rev |-> FALSE]}
    ELSE DeleteEnvs

Delete ==
  /\ Idle
  /\ IF Locked
       THEN \E sn \in Shortnames \cup {""} : Serve("delete", sn, 0, Rejected)
     ELSE \E json \in ConfigJSONs :
       \E e \in DeleteEnvsOf(loaded_accounts, json) :
         Serve("delete", json.shortname, 0,
               oidcd_handleDelete(loaded_accounts, json, e))

RemoveAll ==
  Idle /\
  Serve("remove_all", "", 0, oidcd_handleRemoveAll(loaded_accounts))

AccessToken ==
  /\ Idle
  /\ IF Locked
       THEN \E sn \in Shortnames \cup {""}, p \in 0..MaxPeriod :
              Serve("access_token", sn, p, Rejected)
     ELSE \E short_name \in Shortnames \cup {""} :
       \E min_valid_period_str \in IF short_name = "" THEN {""} ELSE PeriodStrs,
          scope \in IF short_name = "" THEN {FALSE} ELSE BOOLEAN :
         \E e \in TokenEnvs(loaded_accounts, short_name, arguments) :
           ServeWait("access_token", short_name,
                     strToInt(min_valid_period_str),
                     oidcd_handleToken(loaded_accounts, short_name,
                                       min_valid_period_str, scope, arguments,
                                       e, now, agent_state.defaultTimeout),
                     NoArg, e.wait)

\* the environments that make a difference to register(json, flows)
RegisterEnvsOf(list, json, flows) ==
  IF \/ ~json.valid
     \/ findInList(list, getAccountFromJSON(json)) # 0
    THEN {[disc |-> "fail", res |-> "null", res2 |-> "null"]}
  ELSE IF ~flows.valid
    THEN {e \in RegisterEnvs : e.res = "null"}
  ELSE RegisterEnvs

Register ==
  /\ Idle
  /\ IF Locked
       THEN \E sn \in Shortnames \cup {""} : Serve("register", sn, 0, Rejected)
     ELSE \E json \in FreshJSONs :
       \E flows_json_str \in IF json.valid THEN RegisterFlows
                              ELSE {[valid |-> FALSE, list |-> <<>>]} :
         \E e \in RegisterEnvsOf(loaded_accounts, json, flows_json_str) :
           Serve("register", json.shortname, 0,
                 oidcd_handleRegister(loaded_accounts, json, flows_json_str, e))

\* the environments that make a difference to a request that finishes a flow
FlowEnvsOf(json) ==
  IF json.valid THEN FlowEnvs ELSE {[disc |-> "fail", tok |-> NoResponse]}

CodeExchange ==
  /\ Idle
  /\ IF Locked
       THEN \E sn \in Shortnames \cup {""}, state \in States :
              Serve("code_exchange", sn, state, Rejected)
     ELSE \E json \in FreshJSONs, state \in States :
       \E e \in FlowEnvsOf(json) :
         Serve("code_exchange", json.shortname, state,
               oidcd_handleCodeExchange(loaded_accounts, json, state, e, now))

DeviceLookup ==
  /\ Idle
  /\ IF Locked
       THEN \E sn \in Shortnames \cup {""} :
              Serve("device_lookup", sn, 0, Rejected)
     ELSE \E json \in FreshJSONs, device_json \in BOOLEAN :
       \E e \in IF device_json THEN FlowEnvsOf(json)
                 ELSE {[disc |-> "fail", tok |-> NoResponse]} :
         Serve("device_lookup", json.shortname, 0,
               oidcd_handleDeviceLookup(loaded_accounts, json, device_json,
                                        e, now))

StateLookUp ==
  Idle /\
  \E state \in States :
    Serve("state_lookup", "", state,
          oidcd_handleStateLookUp(loaded_accounts, state))

TermHttp ==
  Idle /\
  \E state \in States :
    Serve("term_http", "", state,
          Res(loaded_accounts, oidcd_handleTermHttp(state)))

\* lock and unlock: unlock is the one request that reaches its handler while
\* the agent is locked
Lock ==
  Idle /\
  \E password \in LockPasswords :
    LET r == oidcd_handleLock(agent_state.lock_state, loaded_accounts,
                              password, TRUE)
        d == dispatch(agent_state.lock_state, "lock", loaded_accounts,
                      Res(r.list, r.out))
    IN
    /\ con.request = "none"
    /\ con' = [Con("lock", "", 0, d.out) EXCEPT !.password = password]
    /\ loaded_accounts' = d.list
    /\ agent_state' = [agent_state EXCEPT !.lock_state =
                         IF Locked THEN @ ELSE r.lock_state]
    /\ UNCHANGED <<arguments, now, issued, agent>>

Unlock ==
  Idle /\
  \E password \in Passwords :
    LET r == oidcd_handleLock(agent_state.lock_state, loaded_accounts,
                              password, FALSE)
    IN
    /\ con.request = "none"
    /\ con' = [Con("unlock", "", 0, r.out) EXCEPT
                 !.password = password,
                 !.prev = IF con.prev.request = "lock" THEN con.prev
                          ELSE NoPrev]
    /\ loaded_accounts' = r.list
    /\ agent_state' = [agent_state EXCEPT !.lock_state = r.lock_state]
    /\ UNCHANGED <<arguments, now, issued, agent>>

\* the process died in the handler of the request
Crashed == \E i \in 1..Len(con.out) : con.out[i] = Crash

\* the response is out; the connection is removed from the pool
RemoveCon ==
  /\ con.request # "none"
  /\ ~Crashed
  /\ con' = [NoCon EXCEPT !.prev =
               IF con.request = "add" /\ agent = "oidcd"
                 THEN Prev("add", con.shortname, con.pre)
               ELSE IF con.request = "lock" /\ ~con.locked
                 THEN Prev("lock", "", con.pre)
               ELSE IF /\ con.request = "state_lookup"
                       /\ \E i \in 1..Len(con.out) : con.out[i].what = "config"
                 THEN Prev("state_lookup", "", con.pre)
               ELSE IF con.request = "code_exchange"
                 THEN con.prev
               ELSE NoPrev]
  /\ UNCHANGED <<loaded_accounts, agent_state, arguments, now, issued, agent>>

\* time passes between two requests
Tick ==
  /\ con.request = "none"
  /\ now < MaxTime
  /\ now' = now + 1
  /\ UNCHANGED <<loaded_accounts, agent_state, arguments, con, issued, agent>>

\* ---- actions of the stand-alone agent: the branches of main's loop -----------------
\* main reads one request of the connection ipc_async returned, answers it
\* and removes the connection from the pool (RemoveCon)
\* main's loop with the next message read while the connection of the last
\* one is still in the pool
MainIdle_m == agent = "oidc-agent"

MainIdle == agent = "oidc-agent" /\ con.request = "none"

MainServe(request, shortname, n, r) ==
  /\ loaded_accounts' = r.list
  /\ con' = Con(request, shortname, n, r.out)
  /\ UNCHANGED <<agent_state, arguments, now, issued, agent>>

\* the environments that make a difference to handleGen(json)
MainGenEnvs(json) ==
  IF ~json.valid THEN {[disc |-> "fail", tok |-> <<NoResponse, NoResponse>>]}
  ELSE
    {[disc |-> d, tok |-> <<NoResponse, NoResponse>>] :
       d \in IF json.token_endpoint THEN {}
             ELSE {"fail", "no_token_endpoint"}} \cup
    {[disc |-> d, tok |-> <<t1, t2>>] :
       d \in IF json.token_endpoint THEN Discs ELSE {"ok"},
       t1 \in IF json.refresh_token # 0 THEN TokenResponses
              ELSE {NoResponse},
       t2 \in IF json.username /\ json.password THEN TokenResponses
              ELSE {NoResponse}}

\* the provider configurations of a set, each with and without a token
\* endpoint
ProviderJSONs(jsons) ==
  jsons \cup {WithTokenEndpoint(json) : json \in {x \in jsons : x.valid}}

MainGen ==
  /\ MainIdle
  /\ \E json \in ProviderJSONs(GenJSONs) :
       \E e \in {x \in MainGenEnvs(json) : x.tok[1].ok => x.tok[2] = NoResponse} :
         MainServe("gen", json.shortname, 0,
                   handleGen(loaded_accounts, json, e, now))

\* the environments that make a difference to handleAdd(json)
MainAddEnvs(loaded_p, json) ==
  IF ~json.valid \/ findProvider(loaded_p, getProviderFromJSON(json)) # 0
    THEN {[tok |-> <<NoResponse, NoResponse>>, disc |-> "fail",
           changed |-> FALSE, null |-> "error"]}
  ELSE IF json.token_endpoint THEN
    {[tok |-> <<t, NoResponse>>, disc |-> "fail", changed |-> FALSE,
      null |-> "error"] : t \in TokenResponses} \cup
    {[tok |-> <<NoResponse, NoResponse>>, disc |-> "ok",
      changed |-> FALSE, null |-> "error"]} \cup
    {[tok |-> <<NoResponse, t>>, disc |-> "ok", changed |-> TRUE,
      null |-> "error"] : t \in TokenResponses}
  ELSE
    {[tok |-> <<NoResponse, NoResponse>>, disc |-> "fail",
      changed |-> FALSE, null |-> n] : n \in NullOutcomes} \cup
    {[tok |-> <<NoResponse, t>>, disc |-> "ok", changed |-> TRUE,
      null |-> "error"] : t \in TokenResponses}

MainAdd ==
  /\ MainIdle
  /\ \E json \in ProviderJSONs(ConfigJSONs) :
       \E e \in MainAddEnvs(loaded_accounts, json) :
         MainServe("add", json.shortname, 0,
                   handleAdd(loaded_accounts, json, e, now))

MainRm ==
  /\ MainIdle
  /\ \E json \in ConfigJSONs, revoke \in BOOLEAN :
       \E e \in IF revoke THEN DeleteEnvsOf(loaded_accounts, json)
                ELSE {[disc |-> "fail", rev |-> FALSE]} :
         MainServe(IF revoke THEN "delete" ELSE "remove", json.shortname, 0,
                   handleRm(loaded_accounts, json, revoke, e))

MainToken ==
  /\ MainIdle
  /\ \E short_name \in Shortnames \cup {""}, has_period \in BOOLEAN :
       \E min_valid_period_str \in
            IF has_period /\ short_name # ""
              THEN {Digits[p + 1] : p \in 0..MaxPeriod} ELSE {""} :
         \E e \in IF has_period
                      /\ findProvider(loaded_accounts, Key(short_name)) # 0
                    THEN {[tok |-> t] : t \in TokenResponses}
                    ELSE {[tok |-> NoResponse]} :
           MainServe("access_token", short_name,
                     strToInt(min_valid_period_str),
                     handleToken(loaded_accounts, short_name, has_period,
                                 min_valid_period_str, e, now))

MainList ==
  /\ MainIdle
  /\ \E argnull \in IF Len(loaded_accounts.val) = 0 THEN {TRUE}
                      ELSE BOOLEAN :
       MainServe("provider_list", "", 0,
                 handleList(loaded_accounts, argnull))

MainRegister ==
  /\ MainIdle
  /\ \E json \in FreshJSONs :
       \E e \in {x \in RegisterEnvsOf(loaded_accounts, json,
                                       [valid |-> TRUE, list |-> <<>>]) :
                   /\ x.res \in {"null", "ok", "error"}
                   /\ x.disc = "ok" \/ x.res = "null"} :
         MainServe("register", json.shortname, 0,
                   handleRegister(loaded_accounts, json, e))

\* what main does with a request no handler gets: nothing when ipc_read
\* returns NULL, else one of the three bad-request answers
MainBadRequest ==
  /\ MainIdle
  /\ \E q \in {"null", "no_json", "no_request_type", "unknown_request_type"} :
       /\ loaded_accounts' = loaded_accounts
       /\ con' = [Con("bad_request", "", 0,
                      IF q = "null" THEN <<>>
                      ELSE <<ipc_write("failure", q, 0)>>)
                    EXCEPT !.message = q]
       /\ UNCHANGED <<agent_state, arguments, now, issued, agent>>

Next ==
  \/ Gen \/ Add \/ Remove \/ Delete \/ RemoveAll \/ AccessToken \/ Register
  \/ CodeExchange \/ DeviceLookup \/ StateLookUp \/ TermHttp
  \/ Lock \/ Unlock \/ RemoveCon \/ Tick
  \/ MainGen \/ MainAdd \/ MainRm \/ MainToken \/ MainList \/ MainRegister
  \/ MainBadRequest

Spec == Init /\ [][Next]_vars

\* ---- properties ----------------------------------------------------------------------
Writes       == Select(con.out, "write")
WasLoaded    == findInList(con.pre, Key(con.shortname)) # 0
Wrote(status, what) ==
  \E i \in 1..Len(con.out) :
    /\ con.out[i].ev = "write"
    /\ con.out[i].status = status
    /\ con.out[i].what = what
Failed       == \E i \in 1..Len(con.out) :
                  con.out[i].ev = "write" /\ con.out[i].status = "failure"
Called(what, status) ==
  \E i \in 1..Len(con.out) :
    /\ con.out[i].ev = "http"
    /\ con.out[i].what = what
    /\ con.out[i].status = status
LockedError  == <<ipc_writeOidcErrnoToPipe("locked")>>
\* the state gen issued last for shortname sn (0: none)
Outstanding(sn) ==
  IF \E k \in 1..Len(issued) : issued[k] = sn
    THEN CHOOSE k \in 1..Len(issued) :
           /\ issued[k] = sn
           /\ \A j \in (k + 1)..Len(issued) : issued[j] # sn
    ELSE 0

\* C1: a request other than unlock that arrives while the agent is locked is
\* answered with the locked error, and the list of loaded accounts is what it
\* was before the request.
C1_LockedRejects ==
  (con.request \notin {"none", "unlock"} /\ con.locked)
    => (con.out = LockedError /\ loaded_accounts = con.pre)

C1_Witness ==
  /\ con.locked
  /\ con.request = "remove_all"
  /\ Len(con.pre.val) > 0
  /\ con.out = LockedError

\* C2: a successful access_token response carries a token that expires no
\* earlier than the time of the request plus min_valid_period.
C2_TokenValidForPeriod ==
  \A i \in 1..Len(con.out) :
    (con.request = "access_token" /\ con.out[i].ev = "write"
       /\ con.out[i].what = "access_token")
      => con.out[i].n >= now + con.n

\* C3: no two records of the list of loaded accounts have the same shortname.
C3_UniqueShortnames ==
  \A i, j \in 1..Len(loaded_accounts.val) :
    i # j => loaded_accounts.val[i].shortname # loaded_accounts.val[j].shortname

C3_Witness ==
  /\ con.request = "gen"
  /\ WasLoaded
  /\ Wrote("success", "config")
  /\ Len(loaded_accounts.val) = 1
  /\ loaded_accounts.val[1].shortname = con.shortname

\* C4: every handler invocation writes exactly one response (a request that
\* main answers itself, or cannot read, reaches no handler).
C4_ExactlyOneResponse ==
  con.request \notin {"none", "bad_request"} => Len(Writes) = 1

\* C5: when a request is answered with a failure, the list of loaded accounts
\* is what it was when the request arrived.
C5_FailureLeavesRegistry ==
  (con.request # "none" /\ Failed) => loaded_accounts = con.pre

\* C6: an access_token request that returns a token for a record requiring
\* confirmation (global confirm flag or the record's flag) has sent an approved
\* confirm request for that shortname before any token request to the issuer;
\* after a confirm request that was not approved no token is returned.
C6_ConfirmBeforeToken ==
  LET rec == getAccountFromList(loaded_accounts, Key(con.shortname))
      confirmAt(j) == /\ con.out[j].ev = "prompt"
                      /\ con.out[j].what = "confirm"
                      /\ con.out[j].name = con.shortname
  IN
  con.request = "access_token" =>
    /\ (Wrote("success", "access_token")
          /\ (arguments.confirm \/ rec.confirmation_required))
         => \E j \in 1..Len(con.out) :
              /\ confirmAt(j)
              /\ con.out[j].status = "success"
              /\ \A k \in 1..(j - 1) : con.out[k].what # "token_refresh"
    /\ (\E j \in 1..Len(con.out) :
          confirmAt(j) /\ con.out[j].status # "success")
         => (Failed /\ ~Wrote("success", "access_token"))

\* C7: the refresh token a delete request has revoked is the one the loaded
\* record of that shortname holds.
C7_DeleteRevokesLoadedToken ==
  \A i \in 1..Len(con.out) :
    (con.request = "delete" /\ con.out[i].what = "revoke")
      => con.out[i].n =
           getAccountFromList(con.pre, Key(con.shortname)).refresh_token

\* C8: delete of a loaded shortname answers an error and keeps the list as it
\* was when discovery or the revocation fails, and removes the record, with a
\* success answer, only after a successful revocation; delete of a shortname
\* that is not loaded makes no revocation call and answers an error.
C8_DeleteRetainsOnFailure ==
  (con.request = "delete" /\ ~con.locked) =>
    /\ (WasLoaded /\ (Called("discovery", "fail") \/ Called("revoke", "fail")))
         => (Failed /\ ~Wrote("success", "") /\ loaded_accounts = con.pre)
    /\ (WasLoaded /\ Called("revoke", "ok"))
         => /\ Wrote("success", "") /\ ~Failed
            /\ loaded_accounts =
                 list_remove(con.pre, findInList(con.pre, Key(con.shortname)))
    /\ loaded_accounts # con.pre
         => /\ Called("revoke", "ok")
            /\ con.out[Len(con.out)].ev = "write"
            /\ con.out[Len(con.out) - 1].what = "revoke"
    /\ ~WasLoaded
         => /\ ~Called("revoke", "ok") /\ ~Called("revoke", "fail")
            /\ Failed /\ loaded_accounts = con.pre

C8_Witness ==
  /\ con.request = "delete"
  /\ WasLoaded
  /\ Called("revoke", "fail")
  /\ Failed
  /\ findInList(loaded_accounts, Key(con.shortname)) # 0

\* C9: a code_exchange whose state is not the outstanding state gen issued for
\* the account is answered not-found, sends no token request and adds no
\* record (looked at where discovery has succeeded, so that the answer is not
\* the discovery error).
C9_UnknownStateNotFound ==
  (/\ con.request = "code_exchange" /\ ~con.locked
   /\ con.shortname \in Shortnames
   /\ Called("discovery", "ok")
   /\ Outstanding(con.shortname) # con.n)
    => /\ \E i \in 1..Len(con.out) :
            con.out[i].ev = "write" /\ con.out[i].status = "notfound"
       /\ ~Called("token_code", "ok") /\ ~Called("token_code", "fail")
       /\ loaded_accounts = con.pre

\* C10: once gen has issued a second state for an account, the state of the
\* first initiation is no longer outstanding: a code_exchange carrying it does
\* not complete.
C10_ReplacedStateCannotComplete ==
  (/\ con.request = "code_exchange"
   /\ con.shortname \in Shortnames
   /\ con.n \in 1..Len(issued)
   /\ issued[con.n] = con.shortname
   /\ con.n < Outstanding(con.shortname))
    => (~Wrote("success", "config") /\ loaded_accounts = con.pre)

\* C11: a gen request of oidcd for a shortname that is already loaded is
\* answered with the already-loaded error, hence not with a config, and leaves
\* the list of loaded accounts, with the existing record, as it was.
C11_GenAlreadyLoadedRejected ==
  (agent = "oidcd" /\ con.request = "gen" /\ ~con.locked /\ WasLoaded)
    => (~Wrote("success", "config") /\ loaded_accounts = con.pre)

\* the trace of the walk over the flow list in the events of the request
Walk == Select(con.out, "flow")
\* a gen request of oidcd that reached its handler
GenServed == agent = "oidcd" /\ con.request = "gen" /\ ~con.locked

\* C12 (as claimed): gen attempts the entries of the flow list in list order,
\* an entry only after every earlier entry was attempted and failed, and the
\* walk ends before the end of the list only when an entry succeeded or
\* suspended.
C12_WalkEndsOnlyOnSuccessOrSuspend ==
  GenServed =>
    /\ Len(Walk) <= Len(con.arg.flow)
    /\ \A k \in 1..Len(Walk) :
         Walk[k].n = k /\ Walk[k].what = con.arg.flow[k]
    /\ \A k \in 1..(Len(Walk) - 1) : Walk[k].status = "fail"
    /\ Len(Walk) < Len(con.arg.flow)
         => /\ Len(Walk) >= 1
            /\ Walk[Len(Walk)].status \in {"ok", "suspend"}

\* C12 (amended): gen attempts the entries of the flow list in list order,
\* an entry only after every earlier entry was attempted and failed, and the
\* walk ends before the end of the list only when an entry succeeded,
\* suspended, or could not be started (code without redirect URI, unknown flow
\* name, no code URI, no device code).
C12_WalkInListOrder ==
  GenServed =>
    /\ Len(Walk) <= Len(con.arg.flow)
    /\ \A k \in 1..Len(Walk) :
         Walk[k].n = k /\ Walk[k].what = con.arg.flow[k]
    /\ \A k \in 1..(Len(Walk) - 1) : Walk[k].status = "fail"
    /\ Len(Walk) < Len(con.arg.flow)
         => /\ Len(Walk) >= 1
            /\ Walk[Len(Walk)].status \in {"ok", "suspend", "abort"}

C12_Witness ==
  /\ GenServed
  /\ Len(con.arg.flow) = 2
  /\ Len(Walk) = 2
  /\ Walk[1].status = "fail"
  /\ Walk[2].status = "ok"
  /\ Wrote("success", "config")

\* a refresh or password entry of the walk gave a token and the account then
\* holds a refresh token
FlowGaveRefreshToken ==
  \E k \in 1..Len(Walk) : Walk[k].status = "ok" /\ Walk[k].m # 0

\* C13: gen of oidcd puts a record into the list of loaded accounts if and only
\* if a refresh or password flow succeeded and the resulting refresh token is
\* present; in every other outcome (an error, an accepted code URI or device
\* answer, an empty flow list) the list is what it was.
C13_GenAddsIffTokenFlowSucceeded ==
  GenServed =>
    /\ FlowGaveRefreshToken
         => /\ Wrote("success", "config")
            /\ findInList(loaded_accounts, Key(con.shortname)) # 0
            /\ getAccountFromList(loaded_accounts,
                                  Key(con.shortname)).refresh_token
                 = Walk[Len(Walk)].m
    /\ ~FlowGaveRefreshToken
         => (loaded_accounts = con.pre /\ ~Wrote("success", "config"))
    /\ (\E i \in 1..Len(con.out) : con.out[i].status = "accepted")
         => loaded_accounts = con.pre

C13_Witness ==
  /\ GenServed
  /\ FlowGaveRefreshToken
  /\ ~WasLoaded
  /\ Len(loaded_accounts.val) = Len(con.pre.val) + 1

\* the one response of the request is the failure what
FailsWith(what) ==
  /\ Len(Writes) = 1
  /\ Writes[1].status = "failure"
  /\ Writes[1].what = what

\* C14: the failure answer of gen (oidcd): a sole refresh or password entry
\* that fails answers that flow's own error; several refresh or password
\* entries that all fail answer 'no flow was successful'; a flow that
\* succeeded without leaving a refresh token answers 'no refresh token'; a
\* code entry without redirect URI answers the no-redirect-URI error; any
\* other flow name answers the unknown-flow error naming it.
C14_GenFailureClassified ==
  LET flow == con.arg.flow
      last == Walk[Len(Walk)]
  IN
  (GenServed /\ Len(Walk) >= 1) =>
    /\ (Len(flow) = 1 /\ flow[1] \in TokenFlows /\ last.status = "fail")
         => FailsWith("flow_failed")
    /\ (/\ Len(flow) > 1 /\ Len(Walk) = Len(flow)
        /\ \A k \in 1..Len(Walk) :
              Walk[k].what \in TokenFlows /\ Walk[k].status = "fail")
         => FailsWith("no_flow")
    /\ (last.status = "ok" /\ last.m = 0) => FailsWith("no_refresh_token")
    /\ (last.what = FLOW_VALUE_CODE /\ ~con.arg.json.redirect_uris)
         => FailsWith("no_redirect_uris")
    /\ last.what \notin {FLOW_VALUE_REFRESH, FLOW_VALUE_PASSWORD,
                          FLOW_VALUE_CODE, FLOW_VALUE_DEVICE}
         => (FailsWith("unknown_flow") /\ Writes[1].name = last.what)

C14_Witness ==
  /\ GenServed
  /\ Len(con.arg.flow) = 2
  /\ Len(Walk) = 2
  /\ Walk[1].status = "fail"
  /\ Walk[2].status = "fail"
  /\ FailsWith("no_flow")

\* C15: in gen (oidcd) username and password are cleared once the password
\* post has returned, before anything else is done with the account: no
\* second password post follows in the same request, a config that gen
\* answers (with success, or with the device code of an accepted device
\* flow) carries neither, and the record gen inserts carries neither.
C15_GenClearsCredentials ==
  GenServed =>
    /\ \A i, j \in 1..Len(con.out) :
         (i < j /\ con.out[i].what = "token_password")
           => con.out[j].what # "token_password"
    /\ \A i \in 1..Len(con.out) :
         (con.out[i].ev = "write" /\ con.out[i].what = "config")
           => con.out[i].n = 0
    /\ \A i \in 1..Len(con.out) :
         (con.out[i].ev = "write" /\ con.out[i].what = "device")
           => con.out[i].m = 0
    /\ Wrote("success", "config")
         => LET rec == getAccountFromList(loaded_accounts, Key(con.shortname))
            IN rec # NullAccount /\ ~rec.username /\ ~rec.password

\* the registration posts of the request, in order
Posts == SelectSeq(con.out, LAMBDA x : x.what = "register")
\* a register request that reached its handler
RegisterServed == con.request = "register" /\ ~con.locked

\* C16: the reply of register (oidcd) by the issuer's answers: a first answer
\* that is no JSON object gives the info-typed error; two answers with 'error'
\* give the error with the first answer's error_description (its error when
\* there is none); a first answer with 'error' and a second without give
\* success_client with the second body; a first answer without 'error' gives
\* success_client with the first body when openid and offline_access are
\* granted, and otherwise error_client and no success_client.
C16_RegisterReplyClassified ==
  (RegisterServed /\ agent = "oidcd" /\ Len(Posts) >= 1) =>
    /\ Posts[1].name = "nojson"
         => (FailsWith("no_json") /\ Writes[1].n = 1)
    /\ (Len(Posts) = 2 /\ Posts[2].name = "error")
         => /\ FailsWith(IF Posts[1].name = "error_desc"
                           THEN "error_description" ELSE "error")
            /\ Writes[1].n = 1
    /\ (Len(Posts) = 2 /\ Posts[2].name = "ok")
         => Writes = <<ipc_writeToPipe("success", "client", 2, 0)>>
    /\ Posts[1].name = "ok"
         => Writes = <<ipc_writeToPipe("success", "client", 1, 0)>>
    /\ Posts[1].name = "unscoped"
         => (FailsWith("error_client") /\ ~Wrote("success", "client"))

\* C17: one register request sends at most two registration posts; the second
\* is sent exactly when the first answer is a JSON object with 'error', and it
\* carries the first post's flows without password.
C17_RegisterRetriesOnce ==
  RegisterServed =>
    /\ Len(Posts) <= 2
    /\ Len(Posts) = 2
         <=> (Len(Posts) >= 1 /\ Posts[1].name \in {"error_desc", "error"})
    /\ Len(Posts) = 2
         => (Posts[2].m = 0 /\ Posts[2].n = Posts[1].n - Posts[1].m)

C17_Witness ==
  /\ RegisterServed
  /\ agent = "oidcd"
  /\ Len(Posts) = 2
  /\ Posts[1].m = 1
  /\ Posts[1].n = 2
  /\ Posts[2].n = 1

\* C18: register leaves the list of loaded accounts as it was, whatever its
\* outcome; for a shortname that is loaded it answers an error before any
\* request is sent to the issuer.
C18_RegisterLeavesRegistry ==
  con.request = "register" =>
    /\ loaded_accounts = con.pre
    /\ WasLoaded
         => /\ Failed
            /\ \A i \in 1..Len(con.out) : con.out[i].ev # "http"

C18_Witness ==
  /\ RegisterServed
  /\ WasLoaded
  /\ Wrote("failure", "already_loaded")
  /\ loaded_accounts = con.pre

\* a remove request of oidcd is served right after an add request for the
\* same shortname
RemoveAfterAdd ==
  /\ agent = "oidcd"
  /\ con.request = "remove"
  /\ con.prev.request = "add"
  /\ con.shortname # ""
  /\ con.prev.shortname = con.shortname
\* the shortname was loaded when that add request arrived
LoadedBeforeAdd == findInList(con.prev.pre, Key(con.shortname)) # 0

\* C19 (as claimed): add(A) followed by remove(shortname of A) leaves the list
\* of loaded accounts as it was before the add, also when the shortname was
\* loaded before the add.
C19_AddRemoveRestoresAlways ==
  RemoveAfterAdd => loaded_accounts = con.prev.pre

\* C19 (amended): add(A) followed by remove(shortname of A) leaves the list as
\* it was before the add when the shortname was not loaded before the add;
\* when it was, the remove evicts that record and the list is the list before
\* the add without it.
C19_AddRemoveRestores ==
  RemoveAfterAdd =>
    /\ ~LoadedBeforeAdd => loaded_accounts = con.prev.pre
    /\ (LoadedBeforeAdd /\ ~con.locked)
         => loaded_accounts =
              list_remove(con.prev.pre,
                          findInList(con.prev.pre, Key(con.shortname)))

C19_Witness ==
  /\ RemoveAfterAdd
  /\ ~LoadedBeforeAdd
  /\ WasLoaded
  /\ Wrote("success", "")
  /\ loaded_accounts = con.prev.pre

\* an add request for a shortname that is loaded reached its handler
AddOfLoaded == con.request = "add" /\ ~con.locked /\ WasLoaded
\* the death the request asks for: now + timeout, 0 for timeout 0
RequestedDeath ==
  LET timeout == IF strValid(con.arg.timeout_str)
                   THEN strToInt(con.arg.timeout_str)
                   ELSE agent_state.defaultTimeout
  IN IF timeout # 0 THEN now + timeout ELSE 0
\* the list the request found, with the death of the record of its shortname
\* set to the requested one
WithRequestedDeath ==
  LET node == findInList(con.pre, Key(con.shortname))
  IN [con.pre EXCEPT !.val[node].death = RequestedDeath]

\* C20: add of a shortname that is loaded answers success, sends nothing to
\* the issuer, and leaves the list as it was but for the death of that record,
\* which is the one computed from this request's timeout; the same add once
\* more leaves the list as it is.
C20_AddOfLoadedIdempotent ==
  AddOfLoaded =>
    /\ Len(Writes) = 1 /\ Writes[1].status = "success"
    /\ \A i \in 1..Len(con.out) : con.out[i].ev # "http"
    /\ loaded_accounts = WithRequestedDeath
    /\ oidcd_handleAdd(loaded_accounts, con.arg.json, con.arg.timeout_str,
                       con.arg.confirm_str,
                       [disc |-> "fail", tok |-> NoResponse,
                        errno |-> "oidc_errno"], now,
                       agent_state.defaultTimeout).list = loaded_accounts

\* C20 for oidcd alone
C20_OidcdAddOfLoaded ==
  agent = "oidcd" => C20_AddOfLoadedIdempotent

\* an unlock request is served right after the lock request that locked the
\* agent, and carries the passphrase of that lock request
UnlockAfterLock ==
  /\ agent = "oidcd"
  /\ con.request = "unlock"
  /\ con.prev.request = "lock"
  /\ con.locked
  /\ con.password = con.hash
\* what access_token answers, and the list it leaves, for a lock state and a
\* list, over every request and every answer of issuer and prompter
TokenAnswers(lock_state, list) ==
  [q \in {x \in [short_name : Shortnames, period : PeriodStrs, scope : BOOLEAN,
                 e : UNION {TokenEnvs(con.prev.pre, sn, arguments) :
                              sn \in Shortnames}] :
            x.e \in TokenEnvs(con.prev.pre, x.short_name, arguments)} |->
     dispatch(lock_state, "access_token", list,
              oidcd_handleToken(list, q.short_name, q.period, q.scope,
                                arguments, q.e, now,
                                agent_state.defaultTimeout))]

\* C21: lock(p) immediately followed by unlock(p) returns the agent to the
\* state before the lock: unlocked, the same records with the same refresh
\* tokens, access tokens and expiries, and access_token answers what it would
\* have answered before the lock.
C21_LockUnlockIdentity ==
  UnlockAfterLock =>
    /\ Wrote("success", "unlocked")
    /\ agent_state.lock_state = [locked |-> FALSE, hash |-> ""]
    /\ loaded_accounts = con.prev.pre
    /\ TokenAnswers(agent_state.lock_state, loaded_accounts)
         = TokenAnswers([locked |-> FALSE, hash |-> ""], con.prev.pre)

C21_Witness ==
  /\ UnlockAfterLock
  /\ Len(con.prev.pre.val) = 1
  /\ con.prev.pre.val[1].access_token > 0
  /\ con.prev.pre.val[1].refresh_token > 0
  /\ con.pre.val[1].refresh_token < 0
  /\ loaded_accounts = con.prev.pre
  /\ now > 0

\* the lock state a lock or unlock request found
LockStateBefore == [locked |-> con.locked, hash |-> con.hash]

\* C22: lock succeeds and locks exactly when the agent is unlocked (a lock
\* while locked fails and keeps the verifier); unlock succeeds and unlocks
\* exactly when the agent is locked and the passphrase is the one it was locked
\* with; a failed lock or unlock leaves lock state and list as they were and
\* is answered with one error; no other request changes the lock state.
C22_LockStateTransitions ==
  agent = "oidcd" =>
    /\ con.request = "lock" =>
         IF ~con.locked
           THEN /\ Writes = <<ipc_writeToPipe("success", "locked", 0, 0)>>
                /\ agent_state.lock_state =
                     [locked |-> TRUE, hash |-> con.password]
           ELSE /\ Len(Writes) = 1 /\ Writes[1].status = "failure"
                /\ agent_state.lock_state = LockStateBefore
                /\ loaded_accounts = con.pre
    /\ con.request = "unlock" =>
         IF con.locked /\ con.password = con.hash
           THEN /\ Writes = <<ipc_writeToPipe("success", "unlocked", 0, 0)>>
                /\ ~agent_state.lock_state.locked
           ELSE /\ Len(Writes) = 1 /\ Writes[1].status = "failure"
                /\ agent_state.lock_state = LockStateBefore
                /\ loaded_accounts = con.pre
    /\ con.request \notin {"none", "lock", "unlock"}
         => agent_state.lock_state = LockStateBefore

C22_Witness ==
  /\ agent = "oidcd"
  /\ con.request = "unlock"
  /\ con.locked
  /\ con.password # con.hash
  /\ Len(con.pre.val) = 1
  /\ agent_state.lock_state = [locked |-> TRUE, hash |-> "pw"]
  /\ FailsWith("bad_password")

\* an access_token request of oidcd for a shortname that is not loaded reached
\* its handler
TokenOfNotLoaded ==
  /\ agent = "oidcd"
  /\ con.request = "access_token"
  /\ ~con.locked
  /\ con.shortname # ""
  /\ ~WasLoaded
\* the requests the handler sent to the prompter and to the issuer, in order
Prompts   == Select(con.out, "prompt")
HttpCalls == Select(con.out, "http")
\* the record of the request's shortname is in the list
NowLoaded == findInList(loaded_accounts, Key(con.shortname)) # 0

\* C23: access_token for a shortname that is not loaded.  Autoload disabled:
\* 'not loaded' and no request to the prompter.  Autoload enabled: exactly
\* one autoload request, sent first; a user-cancelled reply answers 'not
\* loaded'; any other prompter failure and any failure to load the returned
\* config is answered as that error, with the list as it was; a returned
\* config is checked by discovery and the refresh flow and is in the list
\* when the token is answered.
C23_AutoloadOfNotLoaded ==
  TokenOfNotLoaded =>
    /\ Len(Writes) = 1
    /\ arguments.no_autoload
         => /\ FailsWith("not_loaded")
            /\ Len(Prompts) = 0 /\ Len(HttpCalls) = 0
            /\ loaded_accounts = con.pre
    /\ ~arguments.no_autoload
         => /\ Len(Prompts) = 1
            /\ con.out[1] = Prompts[1]
            /\ Prompts[1].what = "autoload"
            /\ Prompts[1].name = con.shortname
            /\ Prompts[1].status = "cancelled"
                 => /\ FailsWith("not_loaded")
                    /\ Len(HttpCalls) = 0 /\ loaded_accounts = con.pre
            /\ Prompts[1].status = "null"
                 => /\ FailsWith("prompter_failed")
                    /\ Len(HttpCalls) = 0 /\ loaded_accounts = con.pre
            /\ Prompts[1].status = "error"
                 => /\ FailsWith("prompter_error")
                    /\ Len(HttpCalls) = 0 /\ loaded_accounts = con.pre
            /\ Called("discovery", "fail")
                 => /\ FailsWith("discovery_failed")
                    /\ Len(HttpCalls) = 1 /\ loaded_accounts = con.pre
            /\ (Len(HttpCalls) >= 2 /\ HttpCalls[2].status = "fail")
                 => /\ FailsWith("flow_failed")
                    /\ Len(HttpCalls) = 2 /\ loaded_accounts = con.pre
            /\ Wrote("success", "access_token")
                 => /\ Prompts[1].status = "config"
                    /\ Len(HttpCalls) >= 2
                    /\ HttpCalls[1] = Http("discovery", "ok", 0)
                    /\ HttpCalls[2].what = "token_refresh"
                    /\ HttpCalls[2].status = "ok"
                    /\ NowLoaded
            /\ NowLoaded
                 => /\ Len(HttpCalls) >= 2
                    /\ HttpCalls[1] = Http("discovery", "ok", 0)
                    /\ HttpCalls[2].status = "ok"
            /\ (Len(HttpCalls) >= 2 /\ HttpCalls[2].status = "ok")
                 => NowLoaded

\* C26: when issuer discovery fails in gen, add, autoload (access_token),
\* delete, register, code_exchange or device_lookup, the handler answers one
\* error, the failed discovery is the last request it sends to the issuer,
\* and the list of loaded accounts is what it was.
C26_DiscoveryFailureIsHard ==
  Called("discovery", "fail") =>
    /\ con.request \in {"gen", "add", "access_token", "delete", "register",
                        "code_exchange", "device_lookup"}
    /\ Len(Writes) = 1
    /\ Writes[1].status = "failure"
    /\ con.out[Len(con.out)] = Writes[1]
    /\ HttpCalls[Len(HttpCalls)] = Http("discovery", "fail", 0)
    /\ \A i \in 1..(Len(HttpCalls) - 1) : HttpCalls[i].what # "discovery"
    /\ agent = "oidcd" => Len(HttpCalls) = 1
    /\ loaded_accounts = con.pre

\* the same for the handlers of oidcd alone
C26_OidcdDiscoveryFailureIsHard ==
  agent = "oidcd" => C26_DiscoveryFailureIsHard

\* the connection main is serving carried a message that is no request
BadMessage ==
  /\ agent = "oidc-agent"
  /\ con.request # "none"
  /\ con.message \in {"no_json", "no_request_type", "unknown_request_type"}
\* while a connection is served the loop does nothing but finish it: the next
\* step removes it from the pool and changes nothing else
FinishesConnection ==
  con.request # "none" =>
    /\ con'.request = "none"
    /\ loaded_accounts' = loaded_accounts
    /\ agent_state' = agent_state

\* C27: in main's loop a message that is malformed JSON, has no request key or
\* names an unknown request is answered with exactly one bad-request response,
\* reaches no handler and leaves the providers as they were; and every
\* connection, handled or rejected, is finished (answered and removed from the
\* pool) before a message of another connection is read.
C27_BadRequestAndSequential ==
  /\ [](BadMessage =>
          /\ con.request = "bad_request"
          /\ con.out = <<ipc_write("failure", con.message, 0)>>
          /\ loaded_accounts = con.pre)
  /\ [][FinishesConnection]_vars

C27_Witness ==
  /\ BadMessage
  /\ con.message = "unknown_request_type"
  /\ Len(con.pre.val) = 1
  /\ Len(Writes) = 1
  /\ loaded_accounts = con.pre

\* the first record of a list that carries the used state S (0: none)
Carrier(list, S) ==
  findInList([list EXCEPT !.match = "account_matchByState"],
             [NullAccount EXCEPT !.usedState = S])
\* a state_lookup request that reached its handler
LookUpServed == agent = "oidcd" /\ con.request = "state_lookup" /\ ~con.locked

\* C28: a code_exchange with state S whose token request succeeds with a
\* refresh token loads the record with used state S; a state_lookup(S) that
\* finds a record carrying S answers success with its config, clears its
\* used state and keeps it loaded, so that no record carries S afterwards;
\* a state_lookup for a state no record carries answers notfound and leaves
\* the list as it was; every state_lookup(S) after a state_lookup(S) that
\* found a record answers notfound, also when code_exchange requests were
\* served in between.
C28_StateLookUpOnce ==
  /\ (/\ agent = "oidcd" /\ con.request = "code_exchange" /\ ~con.locked
      /\ Called("token_code", "ok")
      /\ \E i \in 1..Len(issued) : i = con.n /\ issued[i] = con.shortname)
       => \/ FailsWith("no_refresh_token") /\ loaded_accounts = con.pre
          \/ /\ Writes = <<ipc_writeToPipe("success", "config", 0, 0)>>
             /\ NowLoaded
             /\ LET rec == getAccountFromList(loaded_accounts,
                                              Key(con.shortname))
                IN rec.usedState = con.n /\ rec.refresh_token # 0
  /\ LookUpServed =>
       LET node == Carrier(con.pre, con.n) IN
       IF node # 0
         THEN /\ Writes = <<ipc_writeToPipe("success", "config",
                              accountToJSONString(con.pre.val[node]), 0)>>
              /\ loaded_accounts = [con.pre EXCEPT !.val[node].usedState = 0]
              /\ Carrier(loaded_accounts, con.n) = 0
         ELSE /\ Writes = <<ipc_writeToPipe("notfound", "info", con.n, 0)>>
              /\ loaded_accounts = con.pre
  /\ (LookUpServed /\ con.prev.request = "state_lookup"
        /\ Carrier(con.prev.pre, con.n) # 0)
       => /\ Wrote("notfound", "info")
          /\ loaded_accounts = con.pre

\* C29: between handler invocations the match function of the list of loaded
\* accounts is the match by shortname, so that a look-up with a shortname key
\* finds exactly the record of that shortname: state_lookup puts back the
\* match function it found, on the found and on the not-found path, and
\* remove_all leaves an empty list with the match function of the old one.
C29_MatchByShortnameRestored ==
  /\ loaded_accounts.match = "account_matchByName"
  /\ \A sn \in Shortnames :
       LET node == findInList(loaded_accounts, Key(sn)) IN
       IF \E i \in 1..Len(loaded_accounts.val) :
            loaded_accounts.val[i].shortname = sn
         THEN node # 0 /\ loaded_accounts.val[node].shortname = sn
         ELSE node = 0
  /\ LookUpServed => loaded_accounts.match = con.pre.match
  /\ (agent = "oidcd" /\ con.request = "remove_all" /\ ~con.locked)
       => loaded_accounts = [match |-> con.pre.match, val |-> <<>>]

C29_Witness ==
  /\ LookUpServed
  /\ Wrote("notfound", "info")
  /\ Len(loaded_accounts.val) = 1
  /\ loaded_accounts.val[1].usedState \notin {0, con.n}
  /\ loaded_accounts.match = "account_matchByName"
  /\ findInList(loaded_accounts, Key(loaded_accounts.val[1].shortname)) = 1

\* ---- remove on lists of several accounts ------------------------------------------
\* A second specification: the agent starts with up to three accounts of
\* different shortnames loaded (autoload disabled) and serves remove and
\* access_token requests.
FrameShortnames == {"acme", "beta", "gamma"}
\* the lists of loaded accounts with pairwise different shortnames
FrameLists ==
  LET recs == {Account(sn, rt, FALSE, FALSE, TRUE) :
                 sn \in FrameShortnames, rt \in RefreshTokens}
  IN {[match |-> "account_matchByName", val |-> v] :
        v \in {w \in UNION {[1..k -> recs] : k \in 0..3} :
                 \A i, j \in 1..Len(w) :
                    i # j => w[i].shortname # w[j].shortname}}

InitFrame ==
  /\ loaded_accounts \in FrameLists
  /\ agent_state = [defaultTimeout |-> 0,
                    lock_state |-> [locked |-> FALSE, hash |-> ""]]
  /\ agent \in {"oidcd", "oidc-agent"}
  /\ arguments = [no_autoload |-> TRUE, confirm |-> FALSE]
  /\ now = 0
  /\ con = NoCon
  /\ issued = <<>>

\* one request of the accept loop; the history of the last remove request is
\* kept while the request that follows it is served
\* wait is the time the handler waits for the prompter
FrameServeWait(request, shortname, r, wait) ==
  /\ con.request = "none"
  /\ now + wait <= MaxTime
  /\ loaded_accounts' = r.list
  /\ con' = [Con(request, shortname, 0, r.out) EXCEPT !.prev = con.prev]
  /\ now' = now + wait
  /\ UNCHANGED <<agent_state, arguments, issued, agent>>

FrameServe(request, shortname, r) == FrameServeWait(request, shortname, r, 0)

FrameRemove ==
  /\ agent = "oidcd"
  /\ \E account_name \in FrameShortnames \cup {""} :
       FrameServe("remove", account_name,
                  dispatch(agent_state.lock_state, "remove", loaded_accounts,
                           oidcd_handleRm(loaded_accounts, account_name)))

FrameToken ==
  /\ agent = "oidcd"
  /\ \E short_name \in FrameShortnames :
       \E e \in TokenEnvs(loaded_accounts, short_name, arguments) :
         FrameServeWait("access_token", short_name,
                        dispatch(agent_state.lock_state, "access_token",
                                 loaded_accounts,
                                 oidcd_handleToken(loaded_accounts, short_name,
                                                   "", FALSE, arguments, e,
                                                   now,
                                                   agent_state.defaultTimeout)),
                        e.wait)

FrameMainRm ==
  /\ agent = "oidc-agent"
  /\ \E json \in {BadJSON} \cup
                 {ConfigJSON(sn, rt) : sn \in FrameShortnames,
                                       rt \in ClientTokens} :
       FrameServe("remove", json.shortname,
                  handleRm(loaded_accounts, json, FALSE,
                           [disc |-> "fail", rev |-> FALSE]))

FrameMainToken ==
  /\ agent = "oidc-agent"
  /\ \E short_name \in FrameShortnames :
       \E e \in IF findProvider(loaded_accounts, Key(short_name)) # 0
                  THEN {[tok |-> t] : t \in TokenResponses}
                  ELSE {[tok |-> NoResponse]} :
         FrameServe("access_token", short_name,
                    handleToken(loaded_accounts, short_name, TRUE, "0", e,
                                now))

\* the response is out; the connection is removed from the pool
FrameRemoveCon ==
  /\ con.request # "none"
  /\ ~Crashed
  /\ con' = [NoCon EXCEPT !.prev =
               IF con.request = "remove"
                 THEN Prev("remove", con.shortname, con.pre) ELSE NoPrev]
  /\ UNCHANGED <<loaded_accounts, agent_state, arguments, now, issued, agent>>

NextFrame ==
  \/ FrameRemove \/ FrameToken \/ FrameMainRm \/ FrameMainToken
  \/ FrameRemoveCon

SpecFrame == InitFrame /\ [][NextFrame]_vars

\* a remove request that names a shortname was served
RemoveServed == con.request = "remove" /\ ~con.locked /\ con.shortname # ""
\* the records of a list but those of shortname name, in order
Others(list, name) == SelectSeq(list.val, LAMBDA a : a.shortname # name)
\* an access_token request is served right after a remove request that found
\* and removed the record of the same shortname
TokenAfterRemove ==
  /\ con.request = "access_token"
  /\ con.prev.request = "remove"
  /\ con.prev.shortname = con.shortname
  /\ findInList(con.prev.pre, Key(con.shortname)) # 0

\* C24: remove(name) of a shortname that is not loaded answers the not-loaded
\* error and leaves the list as it was; remove(name) of a loaded shortname
\* answers success, sends nothing to the issuer, and leaves the list without
\* that record and with every other record as it was, in order; an
\* access_token for name served next (autoload disabled) answers not loaded.
C24_RemoveFrame ==
  /\ (RemoveServed /\ ~WasLoaded)
       => (FailsWith("not_loaded") /\ loaded_accounts = con.pre)
  /\ (RemoveServed /\ WasLoaded)
       => /\ Writes = <<ipc_writeToPipe("success", "", 0, 0)>>
          /\ Len(HttpCalls) = 0
          /\ loaded_accounts.match = con.pre.match
          /\ loaded_accounts.val = Others(con.pre, con.shortname)
          /\ Len(loaded_accounts.val) = Len(con.pre.val) - 1
  /\ (TokenAfterRemove /\ arguments.no_autoload)
       => (FailsWith("not_loaded") /\ loaded_accounts = con.pre)

C24_Witness ==
  /\ TokenAfterRemove
  /\ agent = "oidcd"
  /\ Len(con.prev.pre.val) = 3
  /\ con.prev.pre.val[2].shortname = con.shortname
  /\ Len(loaded_accounts.val) = 2
  /\ loaded_accounts.val = Others(con.prev.pre, con.shortname)
  /\ FailsWith("not_loaded")

\* ---- the lifetime of records: death and housekeeping ---------------------------------
\* oidcd with records of two shortnames, a default timeout of 0 or 1, and a
\* clock that runs while a handler waits for the issuer or the prompter.  The
\* accept loop and its housekeeping tick are not part of oidcd_handler.c;
\* they are modelled from the documented behaviour: a periodic tick evicts
\* every record whose death is nonzero and <= now; the loop is
\* single-threaded, so no tick runs while a handler runs or waits.  Whether a
\* tick that came due while a handler waited runs before the next request is
\* read is not documented: both orders are steps of the model.
MaxDeathTime         == 4   \* the clock of SpecDeath runs from 0 to MaxDeathTime
MaxDeathWait         == 3   \* the prompter answers within 0..MaxDeathWait
HousekeepingInterval == 1
DeathShortnames      == {"acme", "beta"}
DeathWaits           == 0..MaxDeathWait

\* the tick's visit of every record
removeDeath(list, t) ==
  [list EXCEPT !.val = SelectSeq(@, LAMBDA a : a.death = 0 \/ a.death > t)]

\* the time of the last tick that came due
LastTick(t) == (t \div HousekeepingInterval) * HousekeepingInterval

\* a tick came due and has not visited the records yet
TickDue == removeDeath(loaded_accounts, LastTick(now)) # loaded_accounts

InitDeath ==
  /\ loaded_accounts = [match |-> "account_matchByName", val |-> <<>>]
  /\ agent_state \in [defaultTimeout : {0, 1},
                      lock_state : {[locked |-> FALSE, hash |-> ""]}]
  /\ agent = "oidcd"
  /\ arguments \in [no_autoload : BOOLEAN, confirm : {TRUE}]
  /\ now = 0
  /\ con = NoCon
  /\ issued = <<>>

\* one request of the accept loop; wait is the time its handler waits for the
\* prompter
DeathServeWait(request, shortname, n, r, arg, wait) ==
  /\ con.request = "none"
  /\ now + wait <= MaxDeathTime
  /\ loaded_accounts' = r.list
  /\ con' = [Con(request, shortname, n, r.out) EXCEPT !.arg = arg]
  /\ now' = now + wait
  /\ UNCHANGED <<agent_state, arguments, issued, agent>>

DeathServe(request, shortname, n, r, arg) ==
  DeathServeWait(request, shortname, n, r, arg, 0)

\* the issuer's answers to a token request: none, or a token good for one
\* second with the refresh token kept
DeathResponses == {NoResponse, TokenResponse(TRUE, 1, 0)}

DeathAdd ==
  /\ agent = "oidcd"
  /\ \E sn \in DeathShortnames, timeout_str \in TimeoutStrs :
       \E e \in {x \in AddEnvs(loaded_accounts, ConfigJSON(sn, 1)) :
                   x.tok \in DeathResponses} :
         DeathServe("add", sn, 0,
                    oidcd_handleAdd(loaded_accounts, ConfigJSON(sn, 1),
                                    timeout_str, "", e, now,
                                    agent_state.defaultTimeout),
                    Arg(ConfigJSON(sn, 1), <<>>, timeout_str, ""))

\* access_token with a scope: the token answered is not kept in the record.
\* A handler that asks the prompter waits for its answer for a time in
\* DeathWaits.
DeathToken ==
  /\ agent = "oidcd"
  /\ \E short_name \in DeathShortnames :
       \E x \in {x \in TokenEnvs(loaded_accounts, short_name, arguments) :
                   /\ x.tok \in DeathResponses
                   /\ x.load_tok \in DeathResponses
                   /\ x.wait = 0} :
         \E w \in IF \/ arguments.no_autoload /\ ~arguments.confirm
                     \/ /\ arguments.no_autoload
                        /\ findInList(loaded_accounts, Key(short_name)) = 0
                    THEN {0} ELSE DeathWaits :
           LET e == [x EXCEPT !.wait = w] IN
           DeathServeWait("access_token", short_name, 0,
                          oidcd_handleToken(loaded_accounts, short_name, "",
                                            TRUE, arguments, e, now,
                                            agent_state.defaultTimeout),
                          NoArg, e.wait)

DeathRemove ==
  /\ agent = "oidcd"
  /\ \E account_name \in DeathShortnames :
       DeathServe("remove", account_name, 0,
                  oidcd_handleRm(loaded_accounts, account_name), NoArg)

DeathDelete ==
  /\ agent = "oidcd"
  /\ \E sn \in DeathShortnames :
       \E e \in DeleteEnvsOf(loaded_accounts, ConfigJSON(sn, 1)) :
         DeathServe("delete", sn, 0,
                    oidcd_handleDelete(loaded_accounts, ConfigJSON(sn, 1), e),
                    NoArg)

\* code_exchange puts a record with a used state in the list
DeathCodeExchange ==
  /\ agent = "oidcd"
  /\ \E sn \in Shortnames, state \in States :
       LET json == AccountJSON(TRUE, sn, 0, FALSE, FALSE, TRUE) IN
       \E e \in {x \in FlowEnvsOf(json) :
                   \/ x.tok = NoResponse
                   \/ x.tok.expires_in = 1 /\ x.tok.refresh_token # 0} :
         DeathServe("code_exchange", sn, state,
                    oidcd_handleCodeExchange(loaded_accounts, json, state, e,
                                             now),
                    NoArg)

DeathStateLookUp ==
  /\ agent = "oidcd"
  /\ \E state \in States :
       DeathServe("state_lookup", "", state,
                  oidcd_handleStateLookUp(loaded_accounts, state), NoArg)

\* the response is out; the connection is removed from the pool
DeathRemoveCon ==
  /\ con.request # "none"
  /\ ~Crashed
  /\ con' = NoCon
  /\ UNCHANGED <<loaded_accounts, agent_state, arguments, now, issued, agent>>

\* the housekeeping tick, run between two requests
Housekeeping ==
  /\ con.request = "none"
  /\ removeDeath(loaded_accounts, now) # loaded_accounts
  /\ loaded_accounts' = removeDeath(loaded_accounts, now)
  /\ UNCHANGED <<agent_state, arguments, now, con, issued, agent>>

\* time passes: while the handler of a request waits for the issuer before
\* the response is out, and between two requests; the tick is periodic, so
\* while the loop waits for a request a tick that is due runs before the
\* clock moves on
DeathPass ==
  /\ now < MaxDeathTime
  /\ con.request = "none" => ~TickDue
  /\ now' = now + 1
  /\ UNCHANGED <<loaded_accounts, agent_state, arguments, con, issued, agent>>

NextDeath ==
  \/ DeathAdd \/ DeathToken \/ DeathRemove \/ DeathDelete
  \/ DeathCodeExchange \/ DeathStateLookUp \/ DeathRemoveCon \/ Housekeeping \/ DeathPass

SpecDeath == InitDeath /\ [][NextDeath]_vars

\* the death a request read at con.at asks for with a timeout
DeathFor(timeout) == IF timeout # 0 THEN con.at + timeout ELSE 0
\* the timeout of the add request: the default one when absent or empty
TimeoutOfAdd ==
  IF strValid(con.arg.timeout_str) THEN strToInt(con.arg.timeout_str)
  ELSE agent_state.defaultTimeout
\* the record of the request's shortname in the list the handler left
RecordNow == loaded_accounts.val[findInList(loaded_accounts,
                                            Key(con.shortname))]
\* an add request was answered with success
AddSucceeded ==
  /\ con.request = "add"
  /\ Len(Writes) = 1 /\ Writes[1].status = "success"
\* the handlers that look records up
Finders == {"access_token", "add", "remove", "delete", "state_lookup"}
\* the step is a housekeeping tick
IsTick ==
  /\ con.request = "none" /\ con'.request = "none"
  /\ loaded_accounts' # loaded_accounts

\* the step serves an access_token request whose handler found the record
\* of its shortname and, after the prompter had answered, read its refresh
\* token for the issuer
UsesAfterWait ==
  /\ con.request = "none" /\ con'.request = "access_token"
  /\ findInList(con'.pre, Key(con'.shortname)) # 0
  /\ \E i \in 1..Len(con'.out) : con'.out[i].ev = "prompt"
  /\ \E i \in 1..Len(con'.out) : con'.out[i].ev = "http"
\* the record that request found
FoundRecord == con.pre.val[findInList(con.pre, Key(con.shortname))]

\* a handler does not go on using, after it waited for the prompter, a record
\* it found in time, once the record's death lies more than one interval
\* back
C25_UsedInTime ==
  [][(UsesAfterWait /\ FoundRecord'.death # 0
        /\ now <= FoundRecord'.death + HousekeepingInterval)
       => now' <= FoundRecord'.death + HousekeepingInterval]_vars

C25_Deaths ==
  /\ []((AddSucceeded /\ NowLoaded)
           => RecordNow.death = DeathFor(TimeoutOfAdd))
  /\ [][(con.request = "none" /\ (TokenOfNotLoaded /\ NowLoaded)')
          => RecordNow'.death =
               IF agent_state.defaultTimeout # 0
                 THEN now' + agent_state.defaultTimeout ELSE 0]_vars
  /\ [][IsTick => loaded_accounts' = removeDeath(loaded_accounts, now)]_vars

====
